---- MODULE Spec2Model ----
(***************************************************************************)
(* Verification model of wazergo: the typed marshalling layer (package     *)
(* types), the function binder (F0..F12) and the error-code conversion.    *)
(*                                                                         *)
(* Representation.  A Go integer of w bits is modelled by its two's        *)
(* complement bit pattern, written as a sequence of w/8 bytes with the     *)
(* least significant byte first (element k+1 is (v >> 8k) & 0xff).  A      *)
(* stack word (uint64) is such a sequence of 8 bytes.  Floats are their    *)
(* IEEE-754 bit patterns (math.Float32bits / math.Float64bits).  A Go      *)
(* error is the chain e, Unwrap(e), Unwrap(Unwrap(e)), ... written as a    *)
(* sequence of links, outermost first; the nil error is the empty chain.   *)
(***************************************************************************)
EXTENDS Integers, Sequences, FiniteSets, TLC

VARIABLES
    pc,       \* the operation that ran last
    typ,      \* the type the operation was instantiated with
    arg,      \* the value handed to the operation (receiver of Store*, error of AsErrno)
    stack,    \* the operand stack, []uint64
    before,   \* the operand stack / byte window as it was when the operation was entered
    object,   \* the byte window, []byte
    ret,      \* what the last LoadValue / LoadObject / AsErrno returned
    fn,       \* the Function built by F_N: Params, Results, boundaries and host function
    this,     \* the receiver handed to the thunk
    args,     \* the argument values the caller encoded on the stack
    calls,    \* the invocations of the host function made by the last thunk call
    windows,  \* the stack windows <<lo, hi>> the thunk handed to each parameter's LoadValue
    lines,    \* the lines the logger of the Log decorator has printed
    memory,   \* the linear memory of the guest module, as it was made
    written,  \* the bytes written to the linear memory since: [addr, byte]
    proc,     \* each goroutine that instantiates a host module and calls into it
    rt,       \* the modules instantiated in the wazero runtime, in order
    build,    \* which of the package's versions runs: "module.go" or "part_003"
    cctx,     \* the CompilationContext: whether its runtime is set
    compiled, \* the module types that have been compiled
    ictx,     \* the InstantiationContext: its runtime and its modules field
    registry, \* the modules map made by NewInstantiationContext: type -> host instance
    hosts,    \* the host instances created, with how often each was closed
    mods,     \* the moduleInstance values Instantiate has returned
    ctxs,     \* what the call contexts made by NewCallContext hold
    wctxs,    \* the call contexts made by WithCallContext, each with its own map
    last,     \* the last operation on the contexts and its outcome
    alone,    \* the modules with no Instantiate or Close of their type since they were made
    objectTypes, \* the atomic.Value of the layout cache: the map it holds, 0 for none
    maps,     \* the cache maps allocated so far, each a set of [key, typ] entries
    frozen,   \* for each cache map, whether it has been stored and what it held then
    gor       \* each goroutine that calls cachedObjectTypeOf

vars ==
    <<pc, typ, arg, stack, before, object, ret, fn, this, args, calls, windows, lines,
      memory, written, proc, rt, build, cctx, compiled, ictx, registry, hosts, mods, ctxs,
      wctxs, last, alone,
      objectTypes, maps, frozen, gor>>

codecVars == <<pc, typ, arg, stack, before, object, ret>>
funcVars == <<fn, this, args, calls, windows, lines>>
memVars == <<memory, written>>
instVars == <<proc, rt>>
\* The variables of the module instances, the registry and the layout cache.
regVars ==
    <<build, cctx, compiled, ictx, registry, hosts, mods, ctxs, wctxs, last, alone>>
cacheVars == <<objectTypes, maps, frozen, gor>>
sysVars == <<instVars, regVars, cacheVars>>
\* The variables the codec and binder operations leave alone.
laterVars == <<memVars, sysVars>>
\* The variables of the codec, binder and memory operations, but for pc.
dataVars == <<typ, arg, stack, before, object, ret, funcVars, memVars>>

-----------------------------------------------------------------------------
(* Bounds of the model. *)

\* Longest chain of wrapped errors handed to AsErrno / Optional.
MaxChain == 3
\* Words a stack may hold beyond those the value occupies.
MaxExtra == 1
\* Parameter lists of up to MaxFull types are taken in full.
MaxFull == 2

-----------------------------------------------------------------------------
(* Bytes and fixed-width integers. *)

Byte == 0..255

Zeros(n) == [i \in 1..n |-> 0]

\* Go conversion to a narrower integer type: keeps the low n bytes.
Trunc(b, n) == SubSeq(b, 1, n)

\* Go conversion of an unsigned integer to a wider type.
ZeroExt(b, n) == b \o Zeros(n - Len(b))

\* Go conversion of a signed integer to a wider type.
SignExt(b, n) ==
    b \o [i \in 1..(n - Len(b)) |-> IF b[Len(b)] >= 128 THEN 255 ELSE 0]

\* The int32 with the given (small) value, as its bit pattern.
I32(n) == [i \in 1..4 |-> (n \div (256 ^ (i - 1))) % 256]

\* wazero api.EncodeI32: uint64(uint32(input)).
EncodeI32(v) == ZeroExt(v, 8)
\* wazero api.DecodeI32: int32(input).
DecodeI32(w) == Trunc(w, 4)
\* wazero api.EncodeU32: uint64(input).
EncodeU32(v) == ZeroExt(v, 8)
\* wazero api.DecodeU32: uint32(input).
DecodeU32(w) == Trunc(w, 4)
\* wazero api.EncodeF32: uint64(math.Float32bits(input)).
EncodeF32(v) == ZeroExt(v, 8)
\* wazero api.DecodeF32: math.Float32frombits(uint32(input)).
DecodeF32(w) == Trunc(w, 4)
\* wazero api.EncodeF64: math.Float64bits(input).
EncodeF64(v) == v
\* wazero api.DecodeF64: math.Float64frombits(input).
DecodeF64(w) == w

ZeroWord == Zeros(8)

-----------------------------------------------------------------------------
(* Errors. *)

\* The nil error.
Nil == <<>>

\* errors.Unwrap: the wrapped cause, nil when the error wraps nothing.
Unwrap(err) == IF err = Nil THEN Nil ELSE Tail(err)

\* types.Errno(c) as an error value.
ErrnoError(c) == <<[kind |-> "errno", code |-> c]>>

\* makeErrno: the error of a decoded code.
makeErrno(errno) == IF errno = I32(0) THEN Nil ELSE ErrnoError(errno)

RECURSIVE AsErrnoLoop(_)
AsErrnoLoop(err) ==
    LET e == Unwrap(err) IN
    IF e = Nil THEN I32(-1)
    ELSE IF e[1].kind = "errno" THEN e[1].code
    ELSE IF e[1].kind = "syscall" THEN Trunc(e[1].code, 4)
    ELSE AsErrnoLoop(e)

AsErrno(err) == IF err = Nil THEN I32(0) ELSE AsErrnoLoop(err)

-----------------------------------------------------------------------------
(* Primitive scalars: stack codec (LoadValue / StoreValue) and byte codec     *)
(* (LoadObject / StoreObject).  stack[1] is Go's stack[0], obj[1] is Go's     *)
(* object[0].  A Store* operator returns the slice it was handed, updated.    *)

\* binary.LittleEndian.UintN(b): b[0] | b[1]<<8 | ... | b[n-1]<<8(n-1).
LittleEndianUint(b, n) == [k \in 1..n |-> b[k]]

\* binary.LittleEndian.PutUintN(b, v): b[k] = byte(v >> 8k) for k < n.
\* A slip: binary.BigEndian.PutUintN, the most significant byte first.
BigEndianPutUint(b, v, n) ==
    [i \in 1..Len(b) |-> IF i <= n THEN v[n + 1 - i] ELSE b[i]]

LittleEndianPutUint(b, v, n) ==
    [i \in 1..Len(b) |-> IF i <= n THEN v[i] ELSE b[i]]

\* A slip: stack[0] = uint64(arg), the sign carried into the upper 32 bits.
Int8_StoreValue_Int64(v, s) == [s EXCEPT ![1] = SignExt(v, 8)]

(* Int8 *)
\* Int8(api.DecodeI32(stack[0]))
Int8_LoadValue(s) == Trunc(DecodeI32(s[1]), 1)
\* stack[0] = api.EncodeI32(int32(arg))
Int8_StoreValue(v, s) == [s EXCEPT ![1] = EncodeI32(SignExt(v, 4))]
\* Int8(object[0])
Int8_LoadObject(obj) == <<obj[1]>>
\* object[0] = byte(arg)
Int8_StoreObject(v, obj) == [obj EXCEPT ![1] = v[1]]

(* Int16 *)
\* Int16(api.DecodeI32(stack[0]))
Int16_LoadValue(s) == Trunc(DecodeI32(s[1]), 2)
\* stack[0] = api.EncodeI32(int32(arg))
Int16_StoreValue(v, s) == [s EXCEPT ![1] = EncodeI32(SignExt(v, 4))]
\* Int16(binary.LittleEndian.Uint16(object))
Int16_LoadObject(obj) == LittleEndianUint(obj, 2)
\* binary.LittleEndian.PutUint16(object, uint16(arg))
Int16_StoreObject(v, obj) == LittleEndianPutUint(obj, v, 2)

(* Int32 *)
\* Int32(api.DecodeI32(stack[0]))
Int32_LoadValue(s) == Trunc(DecodeI32(s[1]), 4)
\* stack[0] = api.EncodeI32(int32(arg))
Int32_StoreValue(v, s) == [s EXCEPT ![1] = EncodeI32(SignExt(v, 4))]
\* Int32(binary.LittleEndian.Uint32(object))
Int32_LoadObject(obj) == LittleEndianUint(obj, 4)
\* binary.LittleEndian.PutUint32(object, uint32(arg))
Int32_StoreObject(v, obj) == LittleEndianPutUint(obj, v, 4)

(* Int64 *)
\* A slip: Int64(api.DecodeI32(stack[0])), as the 32-bit types decode.
Int64_LoadValue_Via32(s) == SignExt(DecodeI32(s[1]), 8)
\* Int64(stack[0])
Int64_LoadValue(s) == s[1]
\* stack[0] = uint64(arg)
Int64_StoreValue(v, s) == [s EXCEPT ![1] = v]
\* Int64(binary.LittleEndian.Uint64(object))
Int64_LoadObject(obj) == LittleEndianUint(obj, 8)
\* binary.LittleEndian.PutUint64(object, uint64(arg))
Int64_StoreObject(v, obj) == LittleEndianPutUint(obj, v, 8)

(* Uint8 *)
\* Uint8(api.DecodeU32(stack[0]))
Uint8_LoadValue(s) == Trunc(DecodeU32(s[1]), 1)
\* stack[0] = api.EncodeU32(uint32(arg))
Uint8_StoreValue(v, s) == [s EXCEPT ![1] = EncodeU32(ZeroExt(v, 4))]
\* Uint8(object[0])
Uint8_LoadObject(obj) == <<obj[1]>>
\* object[0] = byte(arg)
Uint8_StoreObject(v, obj) == [obj EXCEPT ![1] = v[1]]

(* Uint16 *)
\* Uint16(api.DecodeU32(stack[0]))
Uint16_LoadValue(s) == Trunc(DecodeU32(s[1]), 2)
\* stack[0] = api.EncodeU32(uint32(arg))
Uint16_StoreValue(v, s) == [s EXCEPT ![1] = EncodeU32(ZeroExt(v, 4))]
\* Uint16(binary.LittleEndian.Uint16(object))
Uint16_LoadObject(obj) == LittleEndianUint(obj, 2)
\* binary.LittleEndian.PutUint16(object, uint16(arg))
Uint16_StoreObject(v, obj) == LittleEndianPutUint(obj, v, 2)

(* Uint32 *)
\* Uint32(api.DecodeU32(stack[0]))
Uint32_LoadValue(s) == Trunc(DecodeU32(s[1]), 4)
\* stack[0] = api.EncodeU32(uint32(arg))
Uint32_StoreValue(v, s) == [s EXCEPT ![1] = EncodeU32(ZeroExt(v, 4))]
\* Uint32(binary.LittleEndian.Uint32(object))
Uint32_LoadObject(obj) == LittleEndianUint(obj, 4)
\* binary.LittleEndian.PutUint32(object, uint32(arg))
Uint32_StoreObject(v, obj) == LittleEndianPutUint(obj, v, 4)

(* Uint64 *)
\* Uint64(stack[0])
Uint64_LoadValue(s) == s[1]
\* stack[0] = uint64(arg)
Uint64_StoreValue(v, s) == [s EXCEPT ![1] = v]
\* Uint64(binary.LittleEndian.Uint64(object))
Uint64_LoadObject(obj) == LittleEndianUint(obj, 8)
\* binary.LittleEndian.PutUint64(object, uint64(arg))
Uint64_StoreObject(v, obj) == LittleEndianPutUint(obj, v, 8)

(* Float32 *)
\* Float32(api.DecodeF32(stack[0]))
Float32_LoadValue(s) == DecodeF32(s[1])
\* stack[0] = api.EncodeF32(float32(arg))
Float32_StoreValue(v, s) == [s EXCEPT ![1] = EncodeF32(v)]
\* Float32(math.Float32frombits(binary.LittleEndian.Uint32(object)))
Float32_LoadObject(obj) == LittleEndianUint(obj, 4)
\* binary.LittleEndian.PutUint32(object, math.Float32bits(float32(arg)))
Float32_StoreObject(v, obj) == LittleEndianPutUint(obj, v, 4)

(* Float64 *)
\* Float64(api.DecodeF64(stack[0]))
Float64_LoadValue(s) == DecodeF64(s[1])
\* stack[0] = api.EncodeF64(float64(arg))
Float64_StoreValue(v, s) == [s EXCEPT ![1] = EncodeF64(v)]
\* Float64(math.Float64frombits(binary.LittleEndian.Uint64(object)))
Float64_LoadObject(obj) == LittleEndianUint(obj, 8)
\* binary.LittleEndian.PutUint64(object, math.Float64bits(float64(arg)))
Float64_StoreObject(v, obj) == LittleEndianPutUint(obj, v, 8)

(* Duration *)
\* Duration(stack[0])
Duration_LoadValue(s) == s[1]
\* stack[0] = uint64(arg)
Duration_StoreValue(v, s) == [s EXCEPT ![1] = v]
\* Duration(binary.LittleEndian.Uint64(object))
Duration_LoadObject(obj) == LittleEndianUint(obj, 8)
\* binary.LittleEndian.PutUint64(object, uint64(arg))
Duration_StoreObject(v, obj) == LittleEndianPutUint(obj, v, 8)

(* Bool *)
\* Bool.byte: 1 for true, 0 for false.
Bool_byte(v) == IF v THEN <<1>> ELSE <<0>>
\* Bool(api.DecodeU32(stack[0]) != 0)
Bool_LoadValue(s) == DecodeU32(s[1]) /= Zeros(4)
\* stack[0] = api.EncodeU32(uint32(arg.byte()))
Bool_StoreValue(v, s) ==
    [s EXCEPT ![1] = EncodeU32(ZeroExt(Bool_byte(v), 4))]
\* Bool(object[0] != 0)
Bool_LoadObject(obj) == obj[1] /= 0
\* object[0] = arg.byte()
Bool_StoreObject(v, obj) == [obj EXCEPT ![1] = Bool_byte(v)[1]]

(* None *)
\* The only value of the empty struct None.
NoneValue == <<>>
None_LoadValue(s) == NoneValue
None_StoreValue(v, s) == s
None_LoadObject(obj) == NoneValue
None_StoreObject(v, obj) == obj

(* Errno *)
\* Errno(api.DecodeI32(stack[0]))
Errno_LoadValue(s) == DecodeI32(s[1])
\* stack[0] = api.EncodeI32(int32(err))
Errno_StoreValue(v, s) == [s EXCEPT ![1] = EncodeI32(v)]

-----------------------------------------------------------------------------
(* Types.  A type is a sequence of names: a scalar is <<"Int32">>, and        *)
(* Optional[T] is <<"Optional">> \o T.                                        *)

Scalars ==
    {"None", "Bool", "Int8", "Int16", "Int32", "Int64", "Uint8", "Uint16",
     "Uint32", "Uint64", "Float32", "Float64", "Duration", "Errno"}

IsOptional(T) == T[1] = "Optional"

\* The type argument T of Optional[T].
Elem(T) == Tail(T)

\* A table of stack shapes in which every integer takes a 32-bit slot.
ScalarValueTypes_Slot32(name) ==
    CASE name = "None" -> <<>>
      [] name \in {"Float32"} -> <<"f32">>
      [] name \in {"Float64"} -> <<"f64">>
      [] OTHER -> <<"i32">>

\* ValueTypes of the scalars.
ScalarValueTypes(name) ==
    CASE name = "None" -> <<>>
      [] name \in {"Bool", "Int8", "Int16", "Int32", "Uint8", "Uint16", "Uint32", "Errno"}
            -> <<"i32">>
      [] name \in {"Int64", "Uint64", "Duration"} -> <<"i64">>
      [] name = "Float32" -> <<"f32">>
      [] name = "Float64" -> <<"f64">>

\* Optional.ValueTypes: append(opt.res.ValueTypes(), api.ValueTypeI32).  The
\* parameters held in the memory are an offset and a length, or an offset for
\* a Pointer.
RECURSIVE ValueTypes(_)
ValueTypes(T) ==
    IF IsOptional(T) THEN Append(ValueTypes(Elem(T)), "i32")
    ELSE IF T[1] \in {"String", "Bytes", "Array", "List"} THEN <<"i32", "i32">>
    ELSE IF T[1] = "Pointer" THEN <<"i32">>
    ELSE ScalarValueTypes(T[1])

\* The zero value of a type (Go's `var x T`).
RECURSIVE ZeroValue(_)
ZeroValue(T) ==
    IF IsOptional(T) THEN [res |-> ZeroValue(Elem(T)), err |-> Nil]
    ELSE CASE T[1] = "None" -> NoneValue
           [] T[1] = "Bool" -> FALSE
           [] T[1] \in {"Int8", "Uint8"} -> Zeros(1)
           [] T[1] \in {"Int16", "Uint16"} -> Zeros(2)
           [] T[1] \in {"Int32", "Uint32", "Float32", "Errno"} -> Zeros(4)
           [] OTHER -> Zeros(8)

ScalarLoadValue(name, s) ==
    CASE name = "None" -> None_LoadValue(s)
      [] name = "Bool" -> Bool_LoadValue(s)
      [] name = "Int8" -> Int8_LoadValue(s)
      [] name = "Int16" -> Int16_LoadValue(s)
      [] name = "Int32" -> Int32_LoadValue(s)
      [] name = "Int64" -> Int64_LoadValue(s)
      [] name = "Uint8" -> Uint8_LoadValue(s)
      [] name = "Uint16" -> Uint16_LoadValue(s)
      [] name = "Uint32" -> Uint32_LoadValue(s)
      [] name = "Uint64" -> Uint64_LoadValue(s)
      [] name = "Float32" -> Float32_LoadValue(s)
      [] name = "Float64" -> Float64_LoadValue(s)
      [] name = "Duration" -> Duration_LoadValue(s)
      [] name = "Errno" -> Errno_LoadValue(s)

ScalarStoreValue(name, v, s) ==
    CASE name = "None" -> None_StoreValue(v, s)
      [] name = "Bool" -> Bool_StoreValue(v, s)
      [] name = "Int8" -> Int8_StoreValue(v, s)
      [] name = "Int16" -> Int16_StoreValue(v, s)
      [] name = "Int32" -> Int32_StoreValue(v, s)
      [] name = "Int64" -> Int64_StoreValue(v, s)
      [] name = "Uint8" -> Uint8_StoreValue(v, s)
      [] name = "Uint16" -> Uint16_StoreValue(v, s)
      [] name = "Uint32" -> Uint32_StoreValue(v, s)
      [] name = "Uint64" -> Uint64_StoreValue(v, s)
      [] name = "Float32" -> Float32_StoreValue(v, s)
      [] name = "Float64" -> Float64_StoreValue(v, s)
      [] name = "Duration" -> Duration_StoreValue(v, s)
      [] name = "Errno" -> Errno_StoreValue(v, s)

\* Go's s[lo:hi] on a slice (0-based, hi exclusive).
Slice(s, lo, hi) == SubSeq(s, lo + 1, hi)

\* The slice s with the words [lo, lo+Len(w)) replaced by w: what a callee's
\* writes through the sub-slice s[lo:hi] leave in s.
Splice(s, lo, w) ==
    [i \in 1..Len(s) |-> IF i > lo /\ i <= lo + Len(w) THEN w[i - lo] ELSE s[i]]

RECURSIVE LoadValue(_, _)
\* Optional.LoadValue, instantiated with the element type T.
Optional_LoadValue(T, s) ==
    LET n == Len(ValueTypes(T)) IN
    [res |-> LoadValue(T, Slice(s, 0, n)),
     err |-> makeErrno(DecodeI32(s[n + 1]))]

\* T.LoadValue(memory, stack) by type.
LoadValue(T, s) ==
    IF IsOptional(T) THEN Optional_LoadValue(Elem(T), s)
    ELSE ScalarLoadValue(T[1], s)

RECURSIVE StoreValue(_, _, _)
\* A slip: the success branch leaves the trailing code word as it was.
Optional_StoreValue_NoCode(T, opt, s) ==
    LET n == Len(ValueTypes(T)) IN
    IF opt.err /= Nil
    THEN [i \in 1..Len(s) |->
            IF i <= n THEN ZeroWord
            ELSE IF i = n + 1 THEN EncodeI32(AsErrno(opt.err))
            ELSE s[i]]
    ELSE Splice(s, 0, StoreValue(T, opt.res, Slice(s, 0, n)))

\* Optional.StoreValue, instantiated with the element type T.
Optional_StoreValue(T, opt, s) ==
    LET n == Len(ValueTypes(T)) IN
    IF opt.err /= Nil
    THEN [i \in 1..Len(s) |->
            IF i <= n THEN ZeroWord
            ELSE IF i = n + 1 THEN EncodeI32(AsErrno(opt.err))
            ELSE s[i]]
    ELSE [Splice(s, 0, StoreValue(T, opt.res, Slice(s, 0, n)))
            EXCEPT ![n + 1] = ZeroWord]

\* v.StoreValue(memory, stack) by type.
StoreValue(T, v, s) ==
    IF IsOptional(T) THEN Optional_StoreValue(Elem(T), v, s)
    ELSE ScalarStoreValue(T[1], v, s)

\* Opt: an optional from a pair of a result and an error.
Opt(res, err) == [res |-> res, err |-> err]
\* Res: an optional from a value.
Res(res) == [res |-> res, err |-> Nil]
\* Err[T]: an optional from an error (panics on a nil error: callers pass none).
Err(T, err) == [res |-> ZeroValue(T), err |-> err]
\* Fail: Err[None].
Fail(err) == Err(<<"None">>, err)

-----------------------------------------------------------------------------
(* Go record types and their layout in host memory.  A Go value of a record   *)
(* type is modelled by its image in host memory: GoSize(t) bytes, each scalar *)
(* field at its Go offset, least significant byte first (the host is little   *)
(* endian), padding bytes 0.  unsafe.Add(p, off) is p + off.                  *)

Prim(kind) == [k |-> "prim", kind |-> kind]
ArrayOf(elem, n) == [k |-> "array", elem |-> elem, len |-> n]
StructOf(fields) == [k |-> "struct", fields |-> fields]
\* A field with no tag.
Field(name, t) ==
    [Name |-> name, Type |-> t, Anonymous |-> FALSE, TagName |-> "", TagSize |-> <<>>]
\* A field tagged `name:"..."`.
NamedField(name, t, tag) ==
    [Name |-> name, Type |-> t, Anonymous |-> FALSE, TagName |-> tag, TagSize |-> <<>>]

\* An embedded (anonymous) field of struct type t, named after the type.
EmbeddedField(name, t) ==
    [Name |-> name, Type |-> t, Anonymous |-> TRUE, TagName |-> "", TagSize |-> <<>>]

\* The size of a value of a primitive kind.
KindSize(kind) ==
    CASE kind \in {"int8", "uint8", "bool"} -> 1
      [] kind \in {"int16", "uint16"} -> 2
      [] kind \in {"int32", "uint32", "float32"} -> 4
      [] kind \in {"int64", "uint64", "float64", "uintptr"} -> 8

AlignUp(x, a) == ((x + a - 1) \div a) * a

Max(a, b) == IF a > b THEN a ELSE b

RECURSIVE GoSize(_), GoAlign(_), FieldEnd(_, _), FieldsAlign(_, _)

\* The offset of field i of a struct (reflect.StructField.Offset).
FieldOffset(fields, i) ==
    AlignUp(FieldEnd(fields, i - 1), GoAlign(fields[i].Type))

\* The end of field i: where the next field is placed, before its alignment.
FieldEnd(fields, i) ==
    IF i = 0 THEN 0 ELSE FieldOffset(fields, i) + GoSize(fields[i].Type)

FieldsAlign(fields, i) ==
    IF i = 0 THEN 1 ELSE Max(GoAlign(fields[i].Type), FieldsAlign(fields, i - 1))

\* reflect.Type.Align.
GoAlign(t) ==
    CASE t.k = "prim" -> KindSize(t.kind)
      [] t.k = "array" -> GoAlign(t.elem)
      [] t.k = "struct" -> FieldsAlign(t.fields, Len(t.fields))

\* reflect.Type.Size.
GoSize(t) ==
    CASE t.k = "prim" -> KindSize(t.kind)
      [] t.k = "array" -> t.len * GoSize(t.elem)
      [] t.k = "struct" -> AlignUp(FieldEnd(t.fields, Len(t.fields)), GoAlign(t))

\* reflect.VisibleFields: the fields of t in declaration order, each anonymous
\* struct field followed by the fields promoted from it; Offset is the offset
\* within the struct that declares the field.
RECURSIVE VisibleFields(_), VisibleFrom(_, _)
VisibleFrom(t, i) ==
    IF i > Len(t.fields) THEN <<>>
    ELSE LET f == t.fields[i]
             sf == [Name |-> f.Name, Type |-> f.Type, Anonymous |-> f.Anonymous,
                    TagName |-> f.TagName, TagSize |-> f.TagSize,
                    Offset |-> FieldOffset(t.fields, i)]
         IN  <<sf>>
             \o (IF f.Anonymous /\ f.Type.k = "struct" THEN VisibleFields(f.Type) ELSE <<>>)
             \o VisibleFrom(t, i + 1)

VisibleFields(t) == VisibleFrom(t, 1)

-----------------------------------------------------------------------------
(* The object layout engine: objectTypeOf and the descriptors it derives. *)

\* The type of package types that object[T] wraps for a primitive kind.
KindType(kind) ==
    CASE kind = "int8" -> "Int8"
      [] kind = "int16" -> "Int16"
      [] kind = "int32" -> "Int32"
      [] kind = "int64" -> "Int64"
      [] kind = "uint8" -> "Uint8"
      [] kind = "uint16" -> "Uint16"
      [] kind = "uint32" -> "Uint32"
      [] kind = "uint64" -> "Uint64"
      [] kind = "float32" -> "Float32"
      [] kind = "float64" -> "Float64"

\* ObjectSize of the scalars.
ScalarObjectSize(name) ==
    CASE name = "None" -> 0
      [] name \in {"Bool", "Int8", "Uint8"} -> 1
      [] name \in {"Int16", "Uint16"} -> 2
      [] name \in {"Int32", "Uint32", "Float32"} -> 4
      [] name \in {"Int64", "Uint64", "Float64", "Duration"} -> 8

ScalarLoadObject(name, obj) ==
    CASE name = "None" -> None_LoadObject(obj)
      [] name = "Bool" -> Bool_LoadObject(obj)
      [] name = "Int8" -> Int8_LoadObject(obj)
      [] name = "Int16" -> Int16_LoadObject(obj)
      [] name = "Int32" -> Int32_LoadObject(obj)
      [] name = "Int64" -> Int64_LoadObject(obj)
      [] name = "Uint8" -> Uint8_LoadObject(obj)
      [] name = "Uint16" -> Uint16_LoadObject(obj)
      [] name = "Uint32" -> Uint32_LoadObject(obj)
      [] name = "Uint64" -> Uint64_LoadObject(obj)
      [] name = "Float32" -> Float32_LoadObject(obj)
      [] name = "Float64" -> Float64_LoadObject(obj)
      [] name = "Duration" -> Duration_LoadObject(obj)

ScalarStoreObject(name, v, obj) ==
    CASE name = "None" -> None_StoreObject(v, obj)
      [] name = "Bool" -> Bool_StoreObject(v, obj)
      [] name = "Int8" -> Int8_StoreObject(v, obj)
      [] name = "Int16" -> Int16_StoreObject(v, obj)
      [] name = "Int32" -> Int32_StoreObject(v, obj)
      [] name = "Int64" -> Int64_StoreObject(v, obj)
      [] name = "Uint8" -> Uint8_StoreObject(v, obj)
      [] name = "Uint16" -> Uint16_StoreObject(v, obj)
      [] name = "Uint32" -> Uint32_StoreObject(v, obj)
      [] name = "Uint64" -> Uint64_StoreObject(v, obj)
      [] name = "Float32" -> Float32_StoreObject(v, obj)
      [] name = "Float64" -> Float64_StoreObject(v, obj)
      [] name = "Duration" -> Duration_StoreObject(v, obj)

RECURSIVE objectTypeOf(_), objectSize(_), appendStructFields(_, _, _),
          appendVisible(_, _, _, _)

\* The kinds objectTypeOf has a case for, besides Struct and Array.
ObjectKinds ==
    {"int8", "int16", "int32", "int64", "uint8", "uint16", "uint32", "uint64",
     "float32", "float64"}

\* objectTypeOf panicked: "cannot construct wasm type from Go value of type".
\* A panic unwinds every caller, so a descriptor that holds one is one.
PanicType == [k |-> "panic"]

Panicked(ot) == ot.k = "panic"

\* objectType.objectSize of object[T], *arrayType and *structType.
objectSize(ot) ==
    CASE ot.k = "panic" -> 0
      [] ot.k = "object" -> ScalarObjectSize(ot.T)
      [] ot.k = "array" -> ot.len * ot.size
      [] ot.k = "struct" -> ot.size

\* The body of the loop of appendStructFields, from field i of the visible fields.
appendVisible(fields, vf, i, offset) ==
    IF i > Len(vf) THEN fields
    ELSE LET f == vf[i]
             fieldOffset == offset + f.Offset
         IN  IF f.Anonymous
             THEN appendVisible(appendStructFields(fields, f.Type, fieldOffset),
                                vf, i + 1, offset)
             ELSE LET fieldType == objectTypeOf(f.Type)
                      fieldName == IF f.TagName /= "" THEN f.TagName ELSE f.Name
                      fieldSize == IF f.TagSize /= <<>> THEN f.TagSize[1]
                                   ELSE objectSize(fieldType)
                  IN  IF fieldName = "-" /\ ~Panicked(fieldType)
                      THEN appendVisible(fields, vf, i + 1, offset)
                      ELSE appendVisible(
                             Append(fields, [name |-> fieldName, typ |-> fieldType,
                                             size |-> fieldSize, offset |-> fieldOffset]),
                             vf, i + 1, offset)

appendStructFields(fields, t, offset) ==
    appendVisible(fields, VisibleFields(t), 1, offset)

structFieldsOf(t) == appendStructFields(<<>>, t, 0)

\* The size taken as the end of the last field in Go's padded layout.
PaddedEnd(fields, i) == IF i = 0 THEN 0 ELSE fields[i].offset + fields[i].size

RECURSIVE SumSizes(_, _)
\* The loop of structTypeOf: st.size += f.size over the first i fields.
SumSizes(fields, i) ==
    IF i = 0 THEN 0 ELSE SumSizes(fields, i - 1) + fields[i].size

structTypeOf(t) ==
    LET fields == structFieldsOf(t) IN
    IF \E i \in 1..Len(fields) : Panicked(fields[i].typ) THEN PanicType
    ELSE [k |-> "struct", fields |-> fields, size |-> SumSizes(fields, Len(fields))]

arrayTypeOf(t) ==
    LET itemType == objectTypeOf(t.elem) IN
    IF Panicked(itemType) THEN PanicType
    ELSE [k |-> "array", typ |-> itemType, len |-> t.len,
          size |-> objectSize(itemType), elem |-> GoSize(t.elem)]

objectTypeOf(t) ==
    CASE t.k = "prim" /\ t.kind \in ObjectKinds -> [k |-> "object", T |-> KindType(t.kind)]
      [] t.k = "struct" -> structTypeOf(t)
      [] t.k = "array" -> arrayTypeOf(t)
      [] OTHER -> PanicType

(* The layout cache: cachedObjectTypeOf.  A cache map is a set of entries     *)
(* [key, typ], the key being the identity of the Go type.                     *)

\* The map with index i of the allocated maps; index 0 is the nil map.
MapAt(ms, i) == IF i = 0 THEN {} ELSE ms[i]

\* typ, ok := cache[typeid(t)]
HasKey(cache, t) == \E e \in cache : e.key = t
Lookup(cache, t) == (CHOOSE e \in cache : e.key = t).typ

\* cache[typeid(t)] = typ
Insert(cache, t, ot) ==
    { e \in cache : e.key /= t } \cup {[key |-> t, typ |-> ot]}

\* The new map written into the map that was loaded instead of a fresh one.
makeCache_InPlace(ms, cache) ==
    IF cache = 0 THEN [maps |-> Append(ms, {}), new |-> Len(ms) + 1]
    ELSE [maps |-> ms, new |-> cache]

\* newCache := make(map[unsafe.Pointer]objectType, len(cache)+1)
makeCache(ms, cache) == [maps |-> Append(ms, {}), new |-> Len(ms) + 1]

\* The cache of the program: the map that is published, the maps that were
\* allocated, and what each map held when it was published.
TheCache == [objectTypes |-> objectTypes, maps |-> maps, frozen |-> frozen]

\* The cache c after objectTypes.Store(newCache), newCache being the map made.
Cache_Store(c, made, newCache) ==
    [objectTypes |-> made.new,
     maps |-> [made.maps EXCEPT ![made.new] = newCache],
     frozen |-> [i \in DOMAIN made.maps |->
                   IF i = made.new THEN [pub |-> TRUE, content |-> newCache]
                   ELSE c.frozen[i]]]

\* The miss of cachedObjectTypeOf, ot being objectTypeOf(t): a new map with
\* the entries of the loaded one and the new entry is made and stored. When
\* objectTypeOf panics nothing is stored.
Cache_Miss(c, t, cache, ot, made) ==
    IF Panicked(ot) THEN [typ |-> ot, cache |-> c]
    ELSE [typ |-> ot,
          cache |-> Cache_Store(c, made,
                                Insert(MapAt(made.maps, made.new) \cup cache, t, ot))]

\* func cachedObjectTypeOf(t reflect.Type) objectType, run on the cache c with
\* no other goroutine in between: the descriptor returned and the cache left.
cachedObjectTypeOf(c, t) ==
    IF HasKey(MapAt(c.maps, c.objectTypes), t)
    THEN [typ |-> Lookup(MapAt(c.maps, c.objectTypes), t), cache |-> c]
    ELSE Cache_Miss(c, t, MapAt(c.maps, c.objectTypes), objectTypeOf(t),
                    makeCache(c.maps, c.objectTypes))

\* func cachedObjectType[T any]() objectType
cachedObjectType(c, t) == cachedObjectTypeOf(c, t)

RECURSIVE loadObject(_, _, _, _), loadFields(_, _, _, _, _), loadItems(_, _, _, _, _)

\* object[T].loadObject: *x = (*x).LoadObject(m, object) with x = (*T)(p).
object_loadObject(T, p, hv, obj) ==
    Splice(hv, p, ScalarLoadObject(T, obj))

\* structType.loadObject from field i on; obj is what is left of the window.
loadFields(t, i, p, hv, obj) ==
    IF i > Len(t.fields) THEN hv
    ELSE LET f == t.fields[i]
             n == f.size
         IN  loadFields(t, i + 1, p,
                        loadObject(f.typ, p + f.offset, hv, Slice(obj, 0, n)),
                        Slice(obj, n, Len(obj)))

\* arrayType.loadObject from item i on; obj is what is left of the window.
loadItems(t, i, p, hv, obj) ==
    IF i >= t.len THEN hv
    ELSE loadItems(t, i + 1, p,
                   loadObject(t.typ, p + i * t.elem, hv, Slice(obj, 0, t.size)),
                   Slice(obj, t.size, Len(obj)))

\* objectType.loadObject(p, m, object): the host memory hv after the load.
loadObject(ot, p, hv, obj) ==
    CASE ot.k = "object" -> object_loadObject(ot.T, p, hv, obj)
      [] ot.k = "struct" -> loadFields(ot, 1, p, hv, obj)
      [] ot.k = "array" -> loadItems(ot, 0, p, hv, obj)

RECURSIVE storeObject(_, _, _, _), storeFields(_, _, _, _, _, _),
          storeItems(_, _, _, _, _, _)

\* object[T].storeObject: (*x).StoreObject(m, object) with x = (*T)(p).
object_storeObject(T, p, hv, obj) ==
    ScalarStoreObject(T, Slice(hv, p, p + ScalarObjectSize(T)), obj)

\* structType.storeObject from field i on; the window left starts at byte pos of obj.
storeFields(t, i, p, hv, obj, pos) ==
    IF i > Len(t.fields) THEN obj
    ELSE LET f == t.fields[i]
             n == f.size
         IN  storeFields(t, i + 1, p, hv,
                         Splice(obj, pos,
                                storeObject(f.typ, p + f.offset, hv, Slice(obj, pos, pos + n))),
                         pos + n)

\* arrayType.storeObject from item i on; the window left starts at byte pos of obj.
storeItems(t, i, p, hv, obj, pos) ==
    IF i >= t.len THEN obj
    ELSE storeItems(t, i + 1, p, hv,
                    Splice(obj, pos,
                           storeObject(t.typ, p + i * t.elem, hv,
                                       Slice(obj, pos, pos + t.size))),
                    pos + t.size)

\* objectType.storeObject(p, m, object): the byte window after the store.
storeObject(ot, p, hv, obj) ==
    CASE ot.k = "object" -> object_storeObject(ot.T, p, hv, obj)
      [] ot.k = "struct" -> storeFields(ot, 1, p, hv, obj, 0)
      [] ot.k = "array" -> storeItems(ot, 0, p, hv, obj, 0)

\* The methods of Struct[T] take the descriptor cachedObjectType[T]() returns
\* on the cache as it is; the cache the call leaves is Struct_Cached.
\* Struct[T].LoadObject: loads into the receiver's copy of Value and returns it.
Struct_LoadObject(t, hv, obj) ==
    loadObject(cachedObjectType(TheCache, t).typ, 0, hv, obj)
\* Struct[T].StoreObject.
Struct_StoreObject(t, hv, obj) ==
    storeObject(cachedObjectType(TheCache, t).typ, 0, hv, obj)
\* Struct[T].ObjectSize.
Struct_ObjectSize(t) == objectSize(cachedObjectType(TheCache, t).typ)
\* The cache after a method of Struct[T]: its calls of cachedObjectType[T]()
\* after the first find the entry the first one stored.
Struct_Cached(c, t) == cachedObjectType(c, t).cache

\* An Object type is a scalar <<"Int32">> or Struct[T], written <<"Struct", T>>.
IsStruct(T) == T[1] = "Struct"

\* Whether the object operations of T panic: those of Struct[T] do when the
\* descriptor of T cannot be derived.
ObjectPanics(T) == IsStruct(T) /\ Panicked(cachedObjectType(TheCache, T[2]).typ)

ObjectSize(T) ==
    IF IsStruct(T) THEN Struct_ObjectSize(T[2]) ELSE ScalarObjectSize(T[1])

\* v.StoreObject(memory, object).
StoreObject(T, v, obj) ==
    IF IsStruct(T) THEN Struct_StoreObject(T[2], v, obj)
    ELSE ScalarStoreObject(T[1], v, obj)

\* T.LoadObject(memory, object) on a zero receiver.
LoadObject(T, obj) ==
    IF IsStruct(T) THEN Struct_LoadObject(T[2], Zeros(GoSize(T[2])), obj)
    ELSE ScalarLoadObject(T[1], obj)

\* The cache after ObjectSize, StoreObject or LoadObject of T, and so after
\* objectSize[T](): only the methods of Struct[T] go through the cache.
Object_Cached(c, T) == IF IsStruct(T) THEN Struct_Cached(c, T[2]) ELSE c

\* The step leaves the cache c.
CacheBecomes(c) ==
    /\ objectTypes' = c.objectTypes
    /\ maps' = c.maps
    /\ frozen' = c.frozen

-----------------------------------------------------------------------------
(* The function binder: Function[T], the constructors F0..F12 and the thunk   *)
(* each of them builds.  A Function is [Params, Results, fn]: the parameter   *)
(* and result types and the host function the thunk calls.                    *)

\* The largest N for which a constructor F_N exists.
MaxArity == 12

RECURSIVE countStackValues(_)
countStackValues(values) ==
    IF values = <<>> THEN 0
    ELSE Len(ValueTypes(Head(values))) + countStackValues(Tail(values))

NumParams(f) == countStackValues(f.Params)

NumResults(f) == countStackValues(f.Results)

RECURSIVE concatValueTypes(_)
concatValueTypes(values) ==
    IF values = <<>> THEN <<>>
    ELSE ValueTypes(Head(values)) \o concatValueTypes(Tail(values))

\* The boundaries a, b, c, ... of F_N: a := len(params1), b := len(params2) + a, ...
RECURSIVE Boundary(_, _)
Boundary(P, i) ==
    IF i = 0 THEN 0 ELSE Len(ValueTypes(P[i])) + Boundary(P, i - 1)

\* A slip: every parameter is handed the whole stack, as F1 hands it to its own.
ThunkWindows_WholeStack(P, s) == [i \in 1..Len(P) |-> [lo |-> 0, hi |-> Len(s)]]

\* The slices of the stack the thunk hands to the parameters' LoadValue: the
\* whole stack in F1, stack[0:a:a], stack[a:b:b], ... in F2..F12.
ThunkWindows(P, s) ==
    IF Len(P) = 1 THEN <<[lo |-> 0, hi |-> Len(s)]>>
    ELSE [i \in 1..Len(P) |-> [lo |-> Boundary(P, i - 1), hi |-> Boundary(P, i)]]

\* F_N(fn) for N = Len(P).
F(P, R, hostfn) == [Params |-> P, Results |-> <<R>>, fn |-> hostfn]

\* The host function fn(this, ctx, a1, ..., aN): it returns a constant, or one
\* of its arguments, or a constant after it loaded what its pointers point to.
Invoke(hostfn, receiver, a) ==
    CASE hostfn.kind = "const" -> hostfn.val
      [] hostfn.kind = "arg" -> a[hostfn.idx]
      [] hostfn.kind = "load" -> hostfn.val

\* Function.Func, the thunk: the windows it slices, the arguments it decodes,
\* the result of fn and the stack after the result's StoreValue.
Func(f, receiver, s) ==
    LET P == f.Params
        w == ThunkWindows(P, s)
        a == [i \in 1..Len(P) |-> LoadValue(P[i], Slice(s, w[i].lo, w[i].hi))]
        r == Invoke(f.fn, receiver, a)
    IN  [windows |-> w, args |-> a, result |-> r,
         stack |-> StoreValue(f.Results[1], r, s)]

\* The loop of wasmtest.Call from argument i on: arg.StoreValue(memory, stack[offset:]).
RECURSIVE StoreArgs(_, _, _, _, _)
StoreArgs(P, a, i, offset, s) ==
    IF i > Len(P) THEN s
    ELSE StoreArgs(P, a, i + 1, offset + Len(ValueTypes(P[i])),
                   Splice(s, offset, StoreValue(P[i], a[i], Slice(s, offset, Len(s)))))

-----------------------------------------------------------------------------
(* Go's uint32 arithmetic on byte sequences, and the linear memory. *)

\* a + b + carry over the bytes of a, the carry out dropped (Go's wrapping +).
RECURSIVE AddCarry(_, _, _)
AddCarry(a, b, c) ==
    IF a = <<>> THEN <<>>
    ELSE LET sum == Head(a) + Head(b) + c IN
         <<sum % 256>> \o AddCarry(Tail(a), Tail(b), sum \div 256)

UintAdd(a, b) == AddCarry(a, b, 0)
\* a - b modulo 2^(8 * Len(a)): a plus the complement of b plus one.
UintSub(a, b) == AddCarry(a, [i \in 1..Len(b) |-> 255 - b[i]], 1)

\* a * k + carry for a small factor k, the carry out dropped (Go's wrapping *).
RECURSIVE MulCarry(_, _, _)
MulCarry(a, k, c) ==
    IF a = <<>> THEN <<>>
    ELSE LET prod == Head(a) * k + c IN
         <<prod % 256>> \o MulCarry(Tail(a), k, prod \div 256)

UintMul(a, k) == MulCarry(a, k, 0)

\* Unsigned comparison of two integers of the same width.
UintLess(a, b) ==
    \E i \in 1..Len(a) :
        /\ a[i] < b[i]
        /\ \A j \in (i + 1)..Len(a) : a[j] = b[j]
UintLeq(a, b) == a = b \/ UintLess(a, b)

\* The 4-byte integer of k pages: const PageSize = 64 * 1024.
PageSize == <<0, 0, 1, 0>>
Pages(k) == <<0, 0, k % 256, k \div 256>>

\* func ceil(size uint32) uint32: the size rounded up to whole pages.
ceil(size) ==
    LET up == UintAdd(size, <<255, 255, 0, 0>>) IN
    <<0, 0, up[3], up[4]>>

\* A linear memory is its size and its content. The content is not stored byte
\* by byte: the byte at an address follows from the seed, 0 for memory that is
\* still zeroed as make([]byte, n) left it.
NewFixedSizeMemory(size, seed) == [size |-> ceil(size), seed |-> seed]
NoMemory == [size |-> Zeros(4), seed |-> 0]
Memory_Size(mem) == mem.size
ByteAt(mem, addr) ==
    IF mem.seed = 0 THEN 0 ELSE (addr[1] * 3 + addr[2] + addr[3] + mem.seed) % 256

\* func (mem *Memory) isOutOfRange(offset, length uint32) bool, without the
\* test of length against the size.
isOutOfRange_NoLength(mem, offset, length) ==
    LET size == Memory_Size(mem) IN
    \/ UintLeq(size, offset)
    \/ UintLess(UintSub(size, length), offset)

\* func (mem *Memory) isOutOfRange(offset, length uint32) bool
isOutOfRange(mem, offset, length) ==
    LET size == Memory_Size(mem) IN
    \/ UintLeq(size, offset)
    \/ UintLess(size, length)
    \/ UintLess(UintSub(size, length), offset)

\* The outcomes of a write: the bool returned with the bytes stored, or the
\* run-time panic of an index beyond the length of a slice.
IndexPanic == [k |-> "panic", msg |-> "index out of range", written |-> {}]
NotWritten == [k |-> "false", written |-> {}]
Stored(offset, value, n) ==
    [k |-> "true",
     written |-> { [addr |-> UintAdd(offset, I32(i - 1)), byte |-> value[i]] : i \in 1..n }]

\* binary.LittleEndian.PutUint16/32/64(mem.memory[offset:], value) with an
\* offset below the size: the early check _ = b[n-1] panics when less than
\* n bytes are left, before any byte is stored.
PutUint(mem, offset, value, n) ==
    IF UintLess(UintSub(Memory_Size(mem), offset), I32(n)) THEN IndexPanic
    ELSE Stored(offset, value, n)

\* func (mem *Memory) WriteByte(offset uint32, value byte) bool
Memory_WriteByte(mem, offset, value) ==
    IF isOutOfRange(mem, offset, I32(1)) THEN NotWritten
    ELSE Stored(offset, value, 1)

\* func (mem *Memory) WriteUint16Le(offset uint32, value uint16) bool
Memory_WriteUint16Le(mem, offset, value) ==
    IF isOutOfRange(mem, offset, I32(2)) THEN NotWritten
    ELSE PutUint(mem, offset, value, 2)

\* func (mem *Memory) WriteUint32Le(offset uint32, value uint32) bool
Memory_WriteUint32Le(mem, offset, value) ==
    IF isOutOfRange(mem, offset, I32(4)) THEN NotWritten
    ELSE PutUint(mem, offset, value, 4)

\* func (mem *Memory) WriteUint64Le(offset uint32, value uint64) bool: the
\* range tested is isOutOfRange(offset, 4).
Memory_WriteUint64Le(mem, offset, value) ==
    IF isOutOfRange(mem, offset, I32(4)) THEN NotWritten
    ELSE PutUint(mem, offset, value, 8)

\* func (mem *Memory) WriteFloat32Le(offset uint32, value float32) bool
Memory_WriteFloat32Le(mem, offset, value) ==
    Memory_WriteUint32Le(mem, offset, value)

\* func (mem *Memory) WriteFloat64Le(offset uint32, value float64) bool
Memory_WriteFloat64Le(mem, offset, value) ==
    Memory_WriteUint64Le(mem, offset, value)

\* func (mem *Memory) Write(offset uint32, value []byte) bool, and WriteString:
\* copy(mem.memory[offset:], value) after the test of len(value).
Memory_Write(mem, offset, value) ==
    IF isOutOfRange(mem, offset, I32(Len(value))) THEN NotWritten
    ELSE Stored(offset, value, Len(value))

\* The write methods by name, with the number of bytes each is to write.
WriteMethods ==
    {"WriteByte", "WriteUint16Le", "WriteUint32Le", "WriteUint64Le",
     "WriteFloat32Le", "WriteFloat64Le", "Write", "WriteString"}
WriteWidth(method, value) ==
    CASE method = "WriteByte" -> 1
      [] method = "WriteUint16Le" -> 2
      [] method \in {"WriteUint32Le", "WriteFloat32Le"} -> 4
      [] method \in {"WriteUint64Le", "WriteFloat64Le"} -> 8
      [] OTHER -> Len(value)
Memory_WriteMethod(method, mem, offset, value) ==
    CASE method = "WriteByte" -> Memory_WriteByte(mem, offset, value)
      [] method = "WriteUint16Le" -> Memory_WriteUint16Le(mem, offset, value)
      [] method = "WriteUint32Le" -> Memory_WriteUint32Le(mem, offset, value)
      [] method = "WriteUint64Le" -> Memory_WriteUint64Le(mem, offset, value)
      [] method = "WriteFloat32Le" -> Memory_WriteFloat32Le(mem, offset, value)
      [] method = "WriteFloat64Le" -> Memory_WriteFloat64Le(mem, offset, value)
      [] OTHER -> Memory_Write(mem, offset, value)

\* mem.memory[addr] after the writes.
ByteNow(mem, w, addr) ==
    IF \E x \in w : x.addr = addr
    THEN (CHOOSE x \in w : x.addr = addr).byte
    ELSE ByteAt(mem, addr)

\* The slice expression b[lo : hi : hi] on a slice of cap bytes starting at
\* address base: a view of hi - lo bytes, or a run-time panic when the bounds
\* are out of order or beyond the capacity. The pointer of the view is
\* base + lo when the view has capacity, and base when its capacity hi - lo is
\* 0: the compiler does not advance the pointer of a slice without capacity.
BoundsPanic == [k |-> "bounds"]
SliceExpr(base, cap, lo, hi) ==
    IF UintLess(cap, hi) \/ UintLess(hi, lo) THEN BoundsPanic
    ELSE [k |-> "slice",
          base |-> IF UintSub(hi, lo) = Zeros(4) THEN base ELSE UintAdd(base, lo),
          len |-> UintSub(hi, lo)]

\* func (mem *Memory) Read(offset, length uint32) ([]byte, bool)
Memory_Read(mem, offset, length) ==
    IF isOutOfRange(mem, offset, length) THEN [k |-> "!ok"]
    ELSE SliceExpr(Zeros(4), Memory_Size(mem), offset, UintAdd(offset, length))

\* type SEGFAULT struct{ Offset, Length uint32 }, as the value of a panic.
SEGFAULT(offset, length) == [k |-> "SEGFAULT", Offset |-> offset, Length |-> length]

\* func Read(memory api.Memory, offset, length uint32) []byte
Read(mem, offset, length) ==
    LET b == Memory_Read(mem, offset, length) IN
    IF b.k = "!ok" THEN SEGFAULT(offset, length) ELSE b

\* func (arg Array[T]) load(memory api.Memory, offset, length uint32) Array[T],
\* for an element type of size bytes: the bytes are read with a 32-bit product
\* for their count, and the view handed back has length elements from the
\* pointer of the bytes read, which is the start of the memory when no byte
\* was read.
Array_load(mem, size, offset, length) ==
    LET data == Read(mem, offset, UintMul(length, size)) IN
    IF data.k /= "slice" THEN data
    ELSE [k |-> "array", base |-> data.base, len |-> length, size |-> size]

\* func (arg Array[T]) LoadValue(memory api.Memory, stack []uint64) Array[T]
Array_LoadValue(mem, size, s) ==
    Array_load(mem, size, DecodeU32(s[1]), DecodeU32(s[2]))

\* The bytes a view of at most a few bytes holds, read from the memory.
RECURSIVE BytesFrom(_, _, _)
BytesFrom(mem, addr, n) ==
    IF n = 0 THEN <<>>
    ELSE <<ByteAt(mem, addr)>> \o BytesFrom(mem, UintAdd(addr, I32(1)), n - 1)

\* The bytes of a view of less than a page, read from the memory.
ViewBytes(mem, view) == BytesFrom(mem, view.base, view.len[1] + 256 * view.len[2])

\* uint32(n) of a Go int n that is small in magnitude.
IntToU32(n) == IF n >= 0 THEN I32(n) ELSE UintSub(Zeros(4), I32(-n))

\* Pointer[T]{memory, offset}; the memory is the one the call runs on.
Ptr(offset) == [k |-> "ptr", offset |-> offset]

\* func (arg Pointer[T]) Object() []byte
Pointer_Object(mem, T, p) == Read(mem, p.offset, IntToU32(ObjectSize(T)))

\* func (arg Pointer[T]) Load() (value T): the value, or the panic of Object.
Pointer_Load(mem, T, p) ==
    LET o == Pointer_Object(mem, T, p) IN
    IF o.k /= "slice" THEN o
    ELSE [k |-> "value", v |-> LoadObject(T, ViewBytes(mem, o))]

\* value.StoreObject(arg.memory, object) on the bytes of the memory Object
\* returned, or the panic of Object.
Pointer_StoreObject(mem, T, value, o) ==
    IF o.k /= "slice" THEN [k |-> "panic", value |-> o, written |-> {}]
    ELSE [k |-> "stored", value |-> o,
          written |-> { [addr |-> UintAdd(o.base, I32(i - 1)),
                         byte |-> StoreObject(T, value, ViewBytes(mem, o))[i]] :
                        i \in 1..ObjectSize(T) }]

\* func (arg Pointer[T]) Store(value T)
Pointer_Store(mem, T, p, value) ==
    Pointer_StoreObject(mem, T, value, Pointer_Object(mem, T, p))

\* Object, Load, Store and Index each call objectSize[T]() before anything
\* else: the cache they leave.
Pointer_Cached(c, T) == Object_Cached(c, T)

\* Index without the scaling of the index by the object size.
Pointer_Index_Unscaled(T, p, index) == Ptr(UintAdd(p.offset, IntToU32(index)))

\* func (arg Pointer[T]) Index(index int) Pointer[T]
Pointer_Index(T, p, index) ==
    Ptr(UintAdd(p.offset, IntToU32(index * ObjectSize(T))))

\* func (arg Pointer[T]) Append(buffer []T, count int) []T, from iteration i on.
RECURSIVE Pointer_Append(_, _, _, _, _, _)
Pointer_Append(mem, T, p, buffer, i, count) ==
    IF i >= count THEN [k |-> "values", vs |-> buffer]
    ELSE LET v == Pointer_Load(mem, T, Pointer_Index(T, p, i)) IN
         IF v.k /= "value" THEN v
         ELSE Pointer_Append(mem, T, p, Append(buffer, v.v), i + 1, count)

\* func (arg Pointer[T]) Slice(count int) []T
Pointer_Slice(mem, T, p, count) == Pointer_Append(mem, T, p, <<>>, 0, count)

\* func MakeList[T Object[T]](ptr Pointer[T], length int) List[T]
MakeList(ptr, length) == [ptr |-> ptr, len |-> IntToU32(length)]

\* func (arg List[T]) Len() int: the 32-bit length as a 64-bit int.
List_Len(l) == ZeroExt(l.len, 8)

\* func (arg List[T]) Index(index int) Pointer[T]
List_Index(T, l, index) ==
    IF index < 0 \/ ~UintLess(ZeroExt(I32(index), 8), List_Len(l))
    THEN [k |-> "panic", msg |-> "index out of bounds"]
    ELSE Pointer_Index(T, l.ptr, index)

\* func (arg List[T]) Slice() []T, for a list of less than 256 items.
List_Slice(mem, T, l) == Pointer_Slice(mem, T, l.ptr, List_Len(l)[1])

\* The cache List.Index leaves: arg.ptr.Index is not reached when the index
\* is out of bounds.
List_Index_Cached(c, T, l, index) ==
    IF index < 0 \/ ~UintLess(ZeroExt(I32(index), 8), List_Len(l)) THEN c
    ELSE Pointer_Cached(c, T)

\* The cache List.Slice leaves: the loop of Append calls arg.Index(0) first,
\* unless the list is empty.
List_Slice_Cached(c, T, l) ==
    IF List_Len(l)[1] = 0 THEN c ELSE Pointer_Cached(c, T)

-----------------------------------------------------------------------------
(* The Log decorator.  The parameters a logged function takes from the guest  *)
(* may live in the linear memory: String, Bytes, Array[T], Pointer[T] and     *)
(* List[T] are written <<"String">>, <<"Bytes">>, <<"Array", kind>>,          *)
(* <<"Pointer", T>> and <<"List", T>>.  A logged line is [params, closed,     *)
(* panicked, results]: the renderings written after the opening parenthesis,  *)
(* whether the closing parenthesis was written, whether PANIC! was written,   *)
(* and the renderings written after the arrow.                                *)

\* The outcome of a LoadValue that returned.
Loaded(v) == [k |-> "value", v |-> v]

\* String(wasm.Read(memory, offset, length)) on what Read returned: a copy of
\* the bytes, or the panic of Read.
String_Copy(mem, b) == IF b.k /= "slice" THEN b ELSE Loaded(ViewBytes(mem, b))

\* func (arg String) LoadValue(memory api.Memory, stack []uint64) String
String_LoadValue(mem, s) ==
    String_Copy(mem, Read(mem, DecodeU32(s[1]), DecodeU32(s[2])))

\* The array LoadValue returned, or the panic of load.
Array_Loaded(a) == IF a.k /= "array" THEN a ELSE Loaded(a)

\* func (arg Pointer[T]) LoadValue: Pointer[T]{memory, api.DecodeU32(stack[0])}
Pointer_LoadValue(s) == Ptr(DecodeU32(s[1]))

\* func (arg List[T]) LoadValue
List_LoadValue(s) == [ptr |-> Pointer_LoadValue(s), len |-> DecodeU32(s[2])]

\* P.LoadValue(memory, stack) of a parameter type: the value, or the panic of
\* the read of the memory.
Param_LoadValue(mem, T, s) ==
    CASE T[1] = "String" -> String_LoadValue(mem, s)
      [] T[1] = "Bytes" -> Array_Loaded(Array_LoadValue(mem, 1, s))
      [] T[1] = "Array" -> Array_Loaded(Array_LoadValue(mem, KindSize(T[2]), s))
      [] T[1] = "Pointer" -> Loaded(Pointer_LoadValue(s))
      [] T[1] = "List" -> Loaded(List_LoadValue(s))
      [] OTHER -> Loaded(LoadValue(T, s))

\* A rendering that was written in full, and one cut short by a panic: value
\* is what had been written of it.
Text(type, value) == [type |-> type, value |-> value, panic |-> FALSE]
Cut(type, value) == [type |-> type, value |-> value, panic |-> TRUE]

\* The elements of an array of fewer than 256 elements, each the bytes of the
\* memory it is made of.
Array_Items(mem, a) ==
    [i \in 1..a.len[1] |-> BytesFrom(mem, UintAdd(a.base, I32((i - 1) * a.size)), a.size)]

\* func (arg Array[T]) Format(w io.Writer): the elements, one after the other.
Array_Format(mem, a) == Array_Items(mem, a)

\* func (arg Bytes) Format(w io.Writer): the bytes quoted, or the first 20 of
\* them and their count when there are more than 32.
Bytes_Format(b) ==
    IF Len(b) <= 32 THEN [quoted |-> b, more |-> 0]
    ELSE [quoted |-> SubSeq(b, 1, 20), more |-> Len(b)]

\* The renderings of the parameters held in the memory, on what LoadValue
\* returned: nothing is written when LoadValue panicked.
String_Format(v) == IF v.k /= "value" THEN Cut("String", <<>>) ELSE Text("String", v.v)
Bytes_FormatLoaded(mem, v) ==
    IF v.k /= "value" THEN Cut("Bytes", <<>>)
    ELSE Text("Bytes", Bytes_Format(ViewBytes(mem, v.v)))
Array_FormatLoaded(mem, v) ==
    IF v.k /= "value" THEN Cut("Array", <<>>) ELSE Text("Array", Array_Format(mem, v.v))

\* The parameters Pointer[T] and List[T] of the logged functions point to
\* scalars, whose ObjectSize and LoadObject are the scalar's own: T is the
\* scalar's name.
\* func (arg Pointer[T]) Object() []byte
Scalar_Pointer_Object(mem, T, p) == Read(mem, p.offset, IntToU32(ScalarObjectSize(T)))

\* value.LoadObject(arg.memory, object) on the bytes Object returned, or the
\* panic of Object.
Scalar_Pointer_LoadObject(mem, T, o) ==
    IF o.k /= "slice" THEN o ELSE Loaded(ScalarLoadObject(T, ViewBytes(mem, o)))

\* func (arg Pointer[T]) Load() (value T)
Scalar_Pointer_Load(mem, T, p) ==
    Scalar_Pointer_LoadObject(mem, T, Scalar_Pointer_Object(mem, T, p))

\* func (arg Pointer[T]) Index(index int) Pointer[T]
Scalar_Pointer_Index(T, p, index) ==
    Ptr(UintAdd(p.offset, IntToU32(index * ScalarObjectSize(T))))

\* v.FormatObject(w, memory, p.Object()) on the outcome v of p.Load(), after
\* "&": the panic of Load leaves the rendering cut short; FormatObject loads
\* the object again from the bytes Object() reads again, the ones Load read.
Pointer_Format(v) ==
    IF v.k /= "value" THEN Cut("Pointer", <<>>) ELSE Text("Pointer", v.v)

\* func (arg Pointer[T]) FormatValue: "&" is written, then arg.Load() reads the
\* object, and FormatObject renders it.
Pointer_FormatValue(mem, T, p) == Pointer_Format(Scalar_Pointer_Load(mem, T, p))

\* The loop of List[T].FormatValue from item i on, after the items in done.
RECURSIVE List_FormatItems(_, _, _, _, _)
\* Item i, on the outcome v of p.Load() for p := arg.ptr.Index(i): the panic
\* of Load leaves the rendering cut short after the items before.
RECURSIVE List_FormatItem(_, _, _, _, _, _)
List_FormatItem(mem, T, l, i, done, v) ==
    IF v.k /= "value" THEN Cut("List", done)
    ELSE List_FormatItems(mem, T, l, i + 1, Append(done, v.v))

List_FormatItems(mem, T, l, i, done) ==
    IF ~UintLess(ZeroExt(I32(i), 8), List_Len(l)) THEN Text("List", done)
    ELSE List_FormatItem(mem, T, l, i, done,
                         Scalar_Pointer_Load(mem, T, Scalar_Pointer_Index(T, l.ptr, i)))

\* func (arg List[T]) FormatValue
List_FormatValue(mem, T, l) == List_FormatItems(mem, T, l, 0, <<>>)

\* v.FormatValue(w, memory, stack) of the zero values held in fn.Params and
\* fn.Results: a scalar renders the value its LoadValue decodes from the stack
\* (the text written by Format is determined by that value); None renders
\* "(none)"; an Optional, whose err is nil in a zero value, renders as its
\* element does; a String, Bytes or Array loads its value from the memory and
\* a Pointer or List loads the objects it points to, and the panic of a read
\* out of the memory's range leaves the rendering cut short.
RECURSIVE FormatValue(_, _, _)
FormatValue(mem, T, s) ==
    IF IsOptional(T) THEN FormatValue(mem, Elem(T), s)
    ELSE CASE T[1] = "None" -> Text("None", NoneValue)
           [] T[1] = "String" -> String_Format(String_LoadValue(mem, s))
           [] T[1] = "Bytes" -> Bytes_FormatLoaded(mem, Array_Loaded(Array_LoadValue(mem, 1, s)))
           [] T[1] = "Array" ->
                Array_FormatLoaded(mem, Array_Loaded(Array_LoadValue(mem, KindSize(T[2]), s)))
           [] T[1] = "Pointer" -> Pointer_FormatValue(mem, T[2], Pointer_LoadValue(s))
           [] T[1] = "List" -> List_FormatValue(mem, T[2], List_LoadValue(s))
           [] OTHER -> Text(T[1], ScalarLoadValue(T[1], s))

\* The renderings written so far: first, then those of rest.
Formatted(first, rest) == [text |-> <<first>> \o rest.text, panic |-> rest.panic]

\* formatValues: each value is rendered from the words left after the ones
\* before it (stack = stack[len(v.ValueTypes()):]); a panic of v.FormatValue
\* ends the loop, with [text, panic] what was written and whether it panicked.
RECURSIVE formatValues(_, _, _)
\* The loop on the rendering first of its first value.
RECURSIVE formatValues_From(_, _, _, _)
formatValues_From(first, mem, s, values) ==
    IF first.panic THEN [text |-> <<first>>, panic |-> TRUE]
    ELSE Formatted(first,
                   formatValues(mem, Slice(s, Len(ValueTypes(Head(values))), Len(s)),
                                Tail(values)))

formatValues(mem, s, values) ==
    IF values = <<>> THEN [text |-> <<>>, panic |-> FALSE]
    ELSE formatValues_From(FormatValue(mem, Head(values), s), mem, s, values)

\* The arguments the thunk decodes, each from its window of the stack.
Window(s, w) == Slice(s, w.lo, w.hi)
Thunk_LoadValues(f, mem, s) ==
    [i \in 1..Len(f.Params) |->
        Param_LoadValue(mem, f.Params[i], Window(s, ThunkWindows(f.Params, s)[i]))]

\* Whether the host function panics on its arguments: one that loads what its
\* pointers point to panics on an object out of the memory's range.
Host_Panics(hostfn, mem, P, a) ==
    /\ hostfn.kind = "load"
    /\ \E i \in 1..Len(P) :
         P[i][1] = "Pointer" /\ Scalar_Pointer_Load(mem, P[i][2], a[i]).k /= "value"

\* The thunk panicked: nothing was stored on the stack.
Thunk_Panic(s) == [stack |-> s, panicked |-> TRUE, calls |-> <<>>]

\* fn returned r on the arguments a, and the thunk stored it.
Thunk_Return(f, receiver, s, a, r) ==
    [stack |-> StoreValue(f.Results[1], r, s), panicked |-> FALSE,
     calls |-> <<[this |-> receiver, args |-> a, result |-> r]>>]

\* The thunk on the arguments a its parameters' LoadValue returned.
Thunk_Host(f, receiver, mem, s, aborts, a) ==
    IF aborts \/ Host_Panics(f.fn, mem, f.Params, a) THEN Thunk_Panic(s)
    ELSE Thunk_Return(f, receiver, s, a, Invoke(f.fn, receiver, a))

\* The thunk on the outcomes of the LoadValue of its parameters.
Thunk_Invoke(f, receiver, mem, s, aborts, loaded) ==
    IF \E i \in DOMAIN loaded : loaded[i].k /= "value" THEN Thunk_Panic(s)
    ELSE Thunk_Host(f, receiver, mem, s, aborts, [i \in DOMAIN loaded |-> loaded[i].v])

\* The wrapped thunk f(this, ctx, module, stack): it returns with the result
\* stored, or it panics before anything is stored: in the LoadValue of a
\* parameter that is out of the memory's range, or in the host function.
Thunk(f, receiver, mem, s, aborts) ==
    Thunk_Invoke(f, receiver, mem, s, aborts, Thunk_LoadValues(f, mem, s))

\* params := make([]uint64, n); copy(params, stack)
Log_params(n, s) == [i \in 1..n |-> IF i <= Len(s) THEN s[i] ELSE ZeroWord]

\* The line the deferred function leaves in the buffer, printed by its own
\* deferred logger.Printf: ps is what formatValues wrote of the parameters and
\* rs what it wrote of the results.  ")" and then " PANIC!" or the arrow and
\* the results are written only when formatValues returned on the parameters.
Log_Line(out, ps, rs) ==
    [params |-> ps.text,
     closed |-> ~ps.panic,
     panicked |-> ~ps.panic /\ out.panicked,
     results |-> IF ps.panic \/ out.panicked THEN <<>> ELSE rs.text]

\* The deferred function of the function Log installs, after the thunk ended
\* as out: the call panics when the thunk did, and when formatValues does.
Log_Deferred(out, ps, rs) ==
    [stack |-> out.stack,
     panicked |-> out.panicked \/ ps.panic \/ (~out.panicked /\ rs.panic),
     calls |-> out.calls,
     lines |-> <<Log_Line(out, ps, rs)>>]

\* The function Log installs as fn.Func on the thunk's outcome out: the
\* parameters are rendered from the copy params, the results from the stack
\* the thunk left.
Log_Format(f, mem, params, out) ==
    Log_Deferred(out, formatValues(mem, params, f.Params),
                 formatValues(mem, out.stack, f.Results))

\* The function Log installs as fn.Func, its call of the wrapped thunk ending
\* as out: it copies the parameter words, calls the wrapped thunk, and its
\* deferred function prints one line; a panic of the thunk is not recovered.
Log_Func(f, mem, s, out) == Log_Format(f, mem, Log_params(NumParams(f), s), out)

\* The function as it is without the decorator: no line is printed.
Log_None(out) ==
    [stack |-> out.stack, panicked |-> out.panicked, calls |-> out.calls, lines |-> <<>>]

\* What Log(logger) makes of a call of the thunk that ends as out.
Log_Installed(logger, f, mem, s, out) ==
    IF logger = "nil" THEN Log_None(out) ELSE Log_Func(f, mem, s, out)

\* Log(logger).Decorate(module, fn).Func: fn.Func itself when the logger is nil.
Log(logger, f, receiver, mem, s, aborts) ==
    Log_Installed(logger, f, mem, s, Thunk(f, receiver, mem, s, aborts))

-----------------------------------------------------------------------------
(* Module instances and the call context that binds a call to its receiver    *)
(* (ModuleInstance, WithModuleInstance).                                      *)

\* A Go context is the chain of its key-value pairs, the innermost last;
\* context.Background() has none.
Background == <<>>
NilValue == [k |-> "nil"]
WithValue(ctx, key, val) == Append(ctx, [key |-> key, val |-> val])

\* ctx.Value(key), looking from the outermost pair inwards.
RECURSIVE Context_Value_Outermost(_, _)
Context_Value_Outermost(ctx, key) ==
    IF ctx = <<>> THEN NilValue
    ELSE IF Head(ctx).key = key THEN Head(ctx).val
    ELSE Context_Value_Outermost(Tail(ctx), key)

\* ctx.Value(key): the value of the innermost pair with the key, or nil.
RECURSIVE Context_Value(_, _)
Context_Value(ctx, key) ==
    IF ctx = <<>> THEN NilValue
    ELSE IF ctx[Len(ctx)].key = key THEN ctx[Len(ctx)].val
    ELSE Context_Value(SubSeq(ctx, 1, Len(ctx) - 1), key)

\* The key (*ModuleInstance[T])(nil) of module type T.
InstanceKey(T) == <<"*ModuleInstance", T>>

\* func WithModuleInstance[T Module](ctx context.Context, ins *ModuleInstance[T]) context.Context
WithModuleInstance(ctx, T, ins) == WithValue(ctx, InstanceKey(T), ins.instance)

\* The type assertion v.(T): the value, or a panic when v is nil.
AssertType(v) == IF v.k = "nil" THEN [k |-> "panic", msg |-> "interface conversion"] ELSE v

\* The receiver contextualizedGoModuleFunction[T].Call resolves:
\* this := ctx.Value((*ModuleInstance[T])(nil)).(T)
Call_this(ctx, T) == AssertType(Context_Value(ctx, InstanceKey(T)))

-----------------------------------------------------------------------------
(* The instance registry: InstantiationContext, Instantiate, NewCallContext,  *)
(* moduleInstance.  The modules map made by NewInstantiationContext is one    *)
(* object; the context's field, the call contexts and the moduleInstance      *)
(* values hold a reference to it ("map") or hold nil ("nil").                 *)

ModuleTypes == {"A", "B"}
\* An empty modules map: no type has an entry (0 is no host instance).
NoModules == [T \in ModuleTypes |-> 0]

\* The registry, the host instances and the moduleInstance values together.
World(reg, hs, ms) == [registry |-> reg, hosts |-> hs, mods |-> ms]

\* instance.Close(ctx) of host instance h.
Host_Close(hs, h) == [hs EXCEPT ![h] = [@ EXCEPT !.closes = @ + 1]]

\* func (m *moduleInstance[T]) close(ctx context.Context), without the delete.
moduleInstance_close_NoDelete(w, m) ==
    World(w.registry,
          Host_Close(w.hosts, w.mods[m].instance),
          [w.mods EXCEPT ![m] = [@ EXCEPT !.modules = "nil"]])

\* func (m *moduleInstance[T]) close(ctx context.Context)
moduleInstance_close(w, m) ==
    World(IF w.mods[m].modules = "map"
          THEN [w.registry EXCEPT ![w.mods[m].type] = 0]
          ELSE w.registry,
          Host_Close(w.hosts, w.mods[m].instance),
          [w.mods EXCEPT ![m] = [@ EXCEPT !.modules = "nil"]])

\* func (m *moduleInstance[T]) Close(ctx context.Context) error, and
\* CloseWithExitCode: the runtime module is closed, then the deferred close runs.
moduleInstance_Close(w, m) ==
    moduleInstance_close(
        World(w.registry, w.hosts, [w.mods EXCEPT ![m] = [@ EXCEPT !.closed = @ + 1]]),
        m)

\* The loop of InstantiationContext.Close over ins.modules: every entry's
\* Close is called; a nil map has no entries.
RECURSIVE CloseAll(_, _, _)
CloseAll(hs, reg, types) ==
    IF types = {} THEN hs
    ELSE LET T == CHOOSE U \in types : TRUE IN
         CloseAll(IF reg[T] = 0 THEN hs ELSE Host_Close(hs, reg[T]), reg, types \ {T})

\* The receiver taken from the entry of any type that has one.
Registry_this_AnyType(reg, ref, T) ==
    IF ref = "nil" \/ \A U \in ModuleTypes : reg[U] = 0
    THEN [k |-> "panic", msg |-> "interface conversion"]
    ELSE [k |-> "instance",
          id |-> reg[CHOOSE U \in ModuleTypes : reg[U] /= 0]]

\* The receiver contextualizedGoModuleFunction[T].Call resolves from a call
\* context holding the modules reference ref:
\* this := modules[contextKey[T]{}].(T)
Registry_this(reg, ref, T) ==
    IF ref = "nil" \/ reg[T] = 0
    THEN [k |-> "panic", msg |-> "interface conversion"]
    ELSE [k |-> "instance", id |-> reg[T]]

\* The contexts WithCallContext is given: the background context, a context
\* made by NewCallContext holding the reference ref, or a context that
\* WithCallContext returned, which holds a map of its own.
BackgroundContext == [k |-> "background"]
CallContext(ref) == [k |-> "call", ref |-> ref]
DerivedContext(next, T, h) ==
    [k |-> "derived", modules |-> next, type |-> T, instance |-> h]

\* prev, _ := ctx.Value(modulesKey{}).(modules): the entries of the map the
\* context holds; no entries for a context without a map or with the nil map.
Context_modules(reg, ctx) ==
    CASE ctx.k = "derived" -> ctx.modules
      [] ctx.k = "call" /\ ctx.ref = "map" -> reg
      [] OTHER -> NoModules

\* A slip: next := prev, the entry written into the map of the parent.
WithCallContext_Alias(reg, ctx, T, h) ==
    LET next == [Context_modules(reg, ctx) EXCEPT ![T] = h] IN
    [registry |-> IF ctx.k = "call" /\ ctx.ref = "map" THEN next ELSE reg,
     ctx |-> DerivedContext(next, T, h)]

\* func WithCallContext[T Module](ctx, mod, opts...) (context.Context, func()):
\* the entries of prev are copied into a new map, the instance h that
\* mod.Instantiate created is set for T, and the context holding the new map
\* is returned.
WithCallContext(reg, ctx, T, h) ==
    LET prev == Context_modules(reg, ctx)
        next == [U \in ModuleTypes |-> IF U = T THEN h ELSE prev[U]]
    IN  [registry |-> reg, ctx |-> DerivedContext(next, T, h)]

-----------------------------------------------------------------------------
(* The inputs the operations are exercised with. *)

\* Bit patterns of an n-byte integer: 0, 1, 0x..030201, -1, the least negative
\* and the greatest positive signed value, and a pattern with the sign bit set.
Samples(n) ==
    { Zeros(n),
      [i \in 1..n |-> IF i = 1 THEN 1 ELSE 0],
      [i \in 1..n |-> i],
      [i \in 1..n |-> 255],
      [i \in 1..n |-> IF i = n THEN 128 ELSE 0],
      [i \in 1..n |-> IF i = n THEN 127 ELSE 255],
      [i \in 1..n |-> 255 - i] }

\* Stack words a guest may leave on the stack.
WordSamples ==
    { ZeroWord,
      <<5, 0, 0, 0, 0, 0, 0, 0>>,
      <<255, 255, 255, 255, 0, 0, 0, 0>>,
      <<1, 2, 3, 4, 5, 6, 7, 8>>,
      <<0, 0, 0, 0, 1, 0, 0, 0>>,
      <<128, 129, 0, 1, 9, 0, 0, 255>> }

\* What a freshly allocated or reused stack holds before a store.
Fills == { ZeroWord, <<170, 170, 170, 170, 170, 170, 170, 170>> }

\* An error that wraps nothing: a value with an Errno() method (such as
\* types.Errno), a syscall.Errno (a uintptr), or an error with neither.
LastLinks ==
    { [kind |-> "errno", code |-> I32(c)] : c \in {0, 5, -1} }
    \cup { [kind |-> "syscall", code |-> ZeroExt(I32(c), 8)] : c \in {0, 2} }
    \cup { [kind |-> "plain", code |-> <<>>] }

\* An error that wraps a cause: with or without an Errno() method of its own.
WrapLinks ==
    { [kind |-> "errno", code |-> I32(c)] : c \in {0, 5, -1} }
    \cup { [kind |-> "plain", code |-> <<>>] }

\* The non-nil errors whose chain holds exactly n errors.
RECURSIVE ChainsOfLen(_)
ChainsOfLen(n) ==
    IF n = 1 THEN { <<l>> : l \in LastLinks }
    ELSE { <<l>> \o c : l \in WrapLinks, c \in ChainsOfLen(n - 1) }

\* The non-nil errors whose chain holds at most n errors.
Errors(n) == UNION { ChainsOfLen(k) : k \in 1..n }

\* The types instantiated: every scalar T, Optional[T] of every scalar, and the
\* nested Optional[Optional[None]] (the type of Res(OK)) and Optional[Optional[Int32]].
Types ==
    { <<name>> : name \in Scalars }
    \cup { <<"Optional", name>> : name \in Scalars }
    \cup { <<"Optional", "Optional", "None">>, <<"Optional", "Optional", "Int32">> }

ScalarValues(name) ==
    CASE name = "None" -> { NoneValue }
      [] name = "Bool" -> BOOLEAN
      [] OTHER -> Samples(Len(ZeroValue(<<name>>)))

\* The values of a type the operations are exercised with: every sample of a
\* scalar; of an Optional, Res(v) of every value of its element type, Err(e) of
\* every error, and Opt(v, e) holding both a value and an error.
RECURSIVE ValuesOf(_)
ValuesOf(T) ==
    IF IsOptional(T)
    THEN { Res(v) : v \in ValuesOf(Elem(T)) }
         \cup { Err(Elem(T), e) : e \in Errors(MaxChain - 1) }
         \cup { Opt(v, ErrnoError(I32(5))) : v \in ValuesOf(Elem(T)) }
    ELSE ScalarValues(T[1])

-----------------------------------------------------------------------------
(* Operations on the operand stack. *)

Unset == <<>>

\* The record types the object operations are exercised with: those of the
\* package's tests, and records with padding, nested records and arrays of records.
OneField(kind) == StructOf(<<Field("F", Prim(kind))>>)
T0 == StructOf(<<>>)
T11 == StructOf(<<Field("F", ArrayOf(Prim("uint32"), 3))>>)
Vec3d ==
    StructOf(<<NamedField("X", Prim("float32"), "x"),
               NamedField("Y", Prim("float32"), "y"),
               NamedField("Z", Prim("float32"), "z")>>)
Mixed ==
    StructOf(<<Field("A", Prim("int8")), Field("B", Prim("int32")),
               Field("C", Prim("int16")), Field("D", Prim("int64"))>>)
Pair == StructOf(<<Field("A", Prim("uint8")), Field("B", Prim("uint16"))>>)
Nested == StructOf(<<Field("P", Pair), Field("Q", Prim("uint8")), Field("R", Mixed)>>)
Pairs == StructOf(<<Field("N", Prim("uint8")), Field("F", ArrayOf(Pair, 2))>>)
Grid == StructOf(<<Field("G", ArrayOf(ArrayOf(Prim("int16"), 2), 2))>>)

Flagged == StructOf(<<Field("N", Prim("uint32")), Field("F", ArrayOf(Prim("bool"), 2))>>)

\* The kinds of Go's fixed-size primitive types.
Kinds ==
    {"int8", "int16", "int32", "int64", "uint8", "uint16", "uint32", "uint64",
     "float32", "float64", "bool", "uintptr"}

GoTypes ==
    {T0, T11, Vec3d, Mixed, Pair, Nested, Pairs, Grid, Flagged}
    \cup { OneField(kind) : kind \in Kinds }

\* The byte a pattern puts at byte j of a scalar of width w at offset p.
PatternByte(pat, p, j, w) ==
    CASE pat = "zero" -> 0
      [] pat = "ones" -> 255
      [] pat = "ramp" -> ((p + j) % 255) + 1
      [] pat = "min" -> IF j = w THEN 128 ELSE 0
      [] pat = "max" -> IF j = w THEN 127 ELSE 255

Patterns == {"zero", "ones", "ramp", "min", "max"}

RECURSIVE Image(_, _, _, _), ImageFields(_, _, _, _, _), ImageItems(_, _, _, _, _)
\* The host memory hv with every scalar of the value of type t at p set by pat.
Image(t, p, hv, pat) ==
    CASE t.k = "prim" ->
           Splice(hv, p, [j \in 1..KindSize(t.kind) |->
                            IF t.kind = "bool" THEN (IF pat = "zero" THEN 0 ELSE 1)
                            ELSE PatternByte(pat, p, j, KindSize(t.kind))])
      [] t.k = "array" -> ImageItems(t, 0, p, hv, pat)
      [] t.k = "struct" -> ImageFields(t, 1, p, hv, pat)

ImageFields(t, i, p, hv, pat) ==
    IF i > Len(t.fields) THEN hv
    ELSE ImageFields(t, i + 1, p,
                     Image(t.fields[i].Type, p + FieldOffset(t.fields, i), hv, pat), pat)

ImageItems(t, i, p, hv, pat) ==
    IF i >= t.len THEN hv
    ELSE ImageItems(t, i + 1, p, Image(t.elem, p + i * GoSize(t.elem), hv, pat), pat)

\* The types with object operations: the scalars but Errno, and Struct[T].
ObjectTypes ==
    { <<name>> : name \in Scalars \ {"Errno"} } \cup { <<"Struct", t>> : t \in GoTypes }

ObjectValues(T) ==
    IF IsStruct(T)
    THEN { Image(T[2], 0, Zeros(GoSize(T[2])), pat) : pat \in Patterns }
    ELSE ScalarValues(T[1])

\* What a byte window of linear memory holds before a store.
ByteFills == {0, 170}

\* The parameter types host functions are bound with: 1, 2, 0, 1 and 3 words.
ParamCycle ==
    << <<"Int32">>, <<"Optional", "Int32">>, <<"None">>, <<"Uint64">>,
       <<"Optional", "Optional", "Int32">> >>

ParamTypes == { ParamCycle[i] : i \in 1..Len(ParamCycle) }

ResultTypes ==
    { <<"None">>, <<"Int32">>, <<"Optional", "None">>, <<"Optional", "Int32">>,
      <<"Optional", "Optional", "Int32">> }

\* The parameter lists: every list of up to MaxFull types, and for the longer
\* ones up to MaxArity the lists that cycle through ParamCycle.
Signatures ==
    UNION { [1..n -> ParamTypes] : n \in 0..MaxFull }
    \cup { [i \in 1..n |-> ParamCycle[((i + shift) % Len(ParamCycle)) + 1]] :
             n \in (MaxFull + 1)..MaxArity, shift \in 0..(Len(ParamCycle) - 1) }

\* The argument given for parameter i of type T.
RECURSIVE ArgValue(_, _, _)
ArgValue(T, i, seed) ==
    IF IsOptional(T) THEN Res(ArgValue(Elem(T), i, seed))
    ELSE CASE T[1] = "None" -> NoneValue
           [] T[1] = "Int32" -> I32(16 * seed + i)
           [] T[1] = "Uint64" -> [k \in 1..8 |-> (16 * seed + i + k) % 256]

ArgSeeds == {1, 2}

\* The parameter lists of the logged functions a guest calls with words of its
\* own: one parameter held in the memory, alone or next to a scalar.
GuestSignatures ==
    { << <<"String">> >>, << <<"Bytes">> >>, << <<"Array", "int16">> >>,
      << <<"Pointer", "Uint32">> >>, << <<"List", "Uint32">> >>,
      << <<"Int32">>, <<"String">> >>, << <<"Pointer", "Uint8">>, <<"Int32">> >> }

GuestResults == { <<"None">>, <<"Int32">> }

\* The offsets a guest passes: in a page, at the end of one, and out of range.
GuestOffsets ==
    { I32(0), I32(8), <<248, 255, 0, 0>>, <<0, 0, 1, 0>>, <<255, 255, 255, 255>> }

\* The lengths a guest passes: a few items, more than the 32 bytes Bytes
\* renders in full, and for the types that read the whole range at once a
\* length no memory holds.
GuestLengths(P) ==
    { I32(0), I32(1), I32(2), I32(40) }
        \cup IF \E i \in 1..Len(P) : P[i][1] = "List" THEN {} ELSE { <<255, 255, 255, 255>> }

\* The words of a parameter of type T on the stack.
GuestWords(T, offset, length) ==
    CASE T[1] = "Int32" -> <<EncodeI32(I32(7))>>
      [] T[1] = "Pointer" -> <<EncodeU32(offset)>>
      [] OTHER -> <<EncodeU32(offset), EncodeU32(length)>>

\* The stack the guest calls with: the words of each parameter in turn.
RECURSIVE GuestStack(_, _, _)
GuestStack(P, offset, length) ==
    IF P = <<>> THEN <<>>
    ELSE GuestWords(Head(P), offset, length) \o GuestStack(Tail(P), offset, length)

\* The host functions behind them: one that ignores its arguments, and one
\* that loads what its pointers point to.
GuestFuncs(R) ==
    { [kind |-> k, idx |-> 0, val |-> ArgValue(R, 9, 2)] : k \in {"const", "load"} }

\* The module instances a thunk is called with.
Receivers == {"instance1", "instance2"}

Oops == <<[kind |-> "plain", code |-> <<>>]>>

\* The values a host function returns.
ResultValues(R) ==
    IF IsOptional(R)
    THEN { Res(ArgValue(Elem(R), 9, 2)), Err(Elem(R), Oops),
           Err(Elem(R), ErrnoError(I32(5))) }
    ELSE { ArgValue(R, 9, 2) }

\* The host functions of parameter types P and result type R.
HostFuncs(P, R) ==
    { [kind |-> "const", idx |-> 0, val |-> v] : v \in ResultValues(R) }
    \cup { [kind |-> "arg", idx |-> i, val |-> ZeroValue(R)] :
             i \in { j \in 1..Len(P) : P[j] = R } }

\* Memory sizes are requested up to MaxPages pages, on and just off a page bound.
MaxPages == 2
SizeRequests ==
    { Pages(k) : k \in 0..MaxPages }
        \cup { UintAdd(Pages(k), I32(1)) : k \in 0..(MaxPages - 1) }
Seeds == {0, 7}
Memories == { NewFixedSizeMemory(size, seed) : size \in SizeRequests, seed \in Seeds }

\* 32-bit offsets and lengths: small ones, ones around the page bounds, and
\* ones near 2^29, 2^30, 2^31 and 2^32 where sums and products wrap.
Uint32Samples ==
    { I32(0), I32(1), I32(2), I32(4), I32(8),
      <<248, 255, 0, 0>>, <<255, 255, 0, 0>>, <<0, 0, 1, 0>>, <<1, 0, 1, 0>>,
      <<252, 255, 1, 0>>, <<0, 0, 2, 0>>, <<0, 0, 3, 0>>,
      <<1, 0, 0, 32>>, <<1, 0, 0, 64>>, <<0, 0, 0, 128>>, <<1, 0, 0, 128>>,
      <<0, 0, 255, 255>>, <<248, 255, 255, 255>>, <<255, 255, 255, 255>> }

\* The values written: two bit patterns of the width of each fixed-width
\* method, and byte strings of 0, 3 and 8 bytes for Write and WriteString.
WriteValues(method) ==
    IF method \in {"Write", "WriteString"}
    THEN { <<>>, <<1, 2, 3>>, [i \in 1..8 |-> 200 + i] }
    ELSE { [i \in 1..WriteWidth(method, <<>>) |-> 16 * i + 1],
           [i \in 1..WriteWidth(method, <<>>) |-> 255] }

\* Element types of the arrays, one of each size.
ElemKinds == {"uint8", "int16", "float32", "uint64"}

\* The object types pointers and lists point to, of 0 to 12 bytes.
PtrTypes ==
    { <<"None">>, <<"Uint8">>, <<"Uint32">>, <<"Uint64">>,
      <<"Struct", Pair>>, <<"Struct", Vec3d>> }
\* Lists are sliced up to MaxList items, pointers indexed from -2 to MaxList.
MaxList == 3
Indexes == (0 - 2)..MaxList

\* MaxProcs goroutines each instantiate the same host module, each with its
\* own initial state answer(0), answer(21), ..., and make up to MaxCalls calls.
MaxProcs == 2
MaxCalls == 2
Procs == 1..MaxProcs
Answer(p) == 21 * (p - 1)
HostModuleType == "answer"
NewProc ==
    [pc |-> "start", module |-> 0, ins |-> NilValue, ctx |-> Background,
     this |-> NilValue, got |-> 0 - 1, calls |-> 0]

\* The two versions of the contexts in the sources, and the number of host
\* instances and of Close calls on one module that are followed.
Builds == {"module.go", "part_003"}
MaxHosts == 2
MaxCloses == 2

\* Two goroutines each make up to MaxLookups calls of cachedObjectTypeOf, for
\* record types of the tests.
MaxLookups == 2
Goroutines == {1, 2}
CacheTypes == {Vec3d, Pair}
NewGoroutine ==
    [pc |-> "ready", t |-> T0, cache |-> 0, new |-> 0, typ |-> NilValue,
     ret |-> NilValue, hit |-> FALSE, calls |-> 0]

\* Records that embed the sub-record Inner, first or after a field, each with
\* the record that declares Inner's fields inline at that position.
Inner == StructOf(<<Field("X", Prim("uint32")), Field("Y", Prim("uint16"))>>)
EmbedFirst == StructOf(<<EmbeddedField("Inner", Inner), Field("B", Prim("uint8"))>>)
InlineFirst ==
    StructOf(<<Field("X", Prim("uint32")), Field("Y", Prim("uint16")),
               Field("B", Prim("uint8"))>>)
EmbedMid ==
    StructOf(<<Field("A", Prim("uint64")), EmbeddedField("Inner", Inner),
               Field("B", Prim("uint8"))>>)
InlineMid ==
    StructOf(<<Field("A", Prim("uint64")), Field("X", Prim("uint32")),
               Field("Y", Prim("uint16")), Field("B", Prim("uint8"))>>)
EmbedOnly == StructOf(<<EmbeddedField("Inner", Inner)>>)
Embeddings ==
    { [embedding |-> EmbedFirst, inline |-> InlineFirst],
      [embedding |-> EmbedMid, inline |-> InlineMid],
      [embedding |-> EmbedOnly, inline |-> Inner] }

Init ==
    /\ pc = "idle"
    /\ typ = <<"None">>
    /\ arg = Unset
    /\ stack = <<>>
    /\ before = <<>>
    /\ object = <<>>
    /\ ret = Unset
    /\ fn = Unset
    /\ this = Unset
    /\ args = <<>>
    /\ calls = <<>>
    /\ windows = <<>>
    /\ lines = <<>>
    /\ memory = NoMemory
    /\ written = {}
    /\ proc = <<>>
    /\ rt = <<>>
    /\ build = "module.go"
    /\ cctx = [runtime |-> FALSE]
    /\ compiled = {}
    /\ ictx = [runtime |-> FALSE, modules |-> "nil"]
    /\ registry = NoModules
    /\ hosts = <<>>
    /\ mods = <<>>
    /\ ctxs = {}
    /\ wctxs = {}
    /\ last = [op |-> "none"]
    /\ alone = {}
    /\ objectTypes = 0
    /\ maps = <<>>
    /\ frozen = <<>>
    /\ gor = <<>>

\* v.StoreValue(memory, stack) on a stack of len(v.ValueTypes()) words or more.
StoreValueCall ==
    /\ pc = "idle"
    /\ \E T \in Types, extra \in 0..MaxExtra, fill \in Fills :
         \E v \in ValuesOf(T) :
           LET s0 == [i \in 1..(Len(ValueTypes(T)) + extra) |-> fill] IN
           /\ pc' = "stored"
           /\ typ' = T
           /\ arg' = v
           /\ before' = s0
           /\ stack' = StoreValue(T, v, s0)
           /\ ret' = Unset
           /\ object' = <<>>
           /\ UNCHANGED <<funcVars, laterVars>>

\* A guest leaves arbitrary words on the stack where a value of type T is expected.
GuestPush ==
    /\ pc = "idle"
    /\ \E T \in Types :
         \E s0 \in [1..Len(ValueTypes(T)) -> WordSamples] :
           /\ pc' = "pushed"
           /\ typ' = T
           /\ arg' = Unset
           /\ before' = s0
           /\ stack' = s0
           /\ ret' = Unset
           /\ object' = <<>>
           /\ UNCHANGED <<funcVars, laterVars>>

\* T.LoadValue(memory, stack) on the stack a store or a guest left.
LoadValueCall ==
    /\ pc \in {"stored", "pushed"}
    /\ Len(stack) >= Len(ValueTypes(typ))
    /\ pc' = IF pc = "stored" THEN "loaded" ELSE "decoded"
    /\ ret' = LoadValue(typ, stack)
    /\ UNCHANGED <<typ, arg, stack, before, object>>
    /\ UNCHANGED <<funcVars, laterVars>>

\* AsErrno(err) on the nil error and on every chain of wrapped errors.
AsErrnoCall ==
    /\ pc = "idle"
    /\ \E e \in Errors(MaxChain) \cup {Nil} :
           /\ pc' = "AsErrno"
           /\ typ' = <<"Errno">>
           /\ arg' = e
           /\ ret' = AsErrno(e)
           /\ stack' = <<>>
           /\ before' = <<>>
           /\ object' = <<>>
           /\ UNCHANGED <<funcVars, laterVars>>

\* v.StoreObject(memory, object) on a window of exactly v.ObjectSize() bytes;
\* when the descriptor of a record type cannot be derived, ObjectSize panics
\* and there is neither a window nor a store.
StoreObjectCall ==
    /\ pc = "idle"
    /\ \E T \in ObjectTypes, fill \in ByteFills :
         \E v \in ObjectValues(T) :
           LET o0 == IF ObjectPanics(T) THEN <<>>
                     ELSE [i \in 1..ObjectSize(T) |-> fill]
           IN  /\ pc' = IF ObjectPanics(T) THEN "panic" ELSE "objStored"
               /\ typ' = T
               /\ arg' = v
               /\ before' = o0
               /\ object' = IF ObjectPanics(T) THEN o0 ELSE StoreObject(T, v, o0)
               /\ ret' = Unset
               /\ stack' = <<>>
               /\ CacheBecomes(Object_Cached(TheCache, T))
               /\ UNCHANGED <<funcVars, memVars, instVars, regVars, gor>>

\* T.LoadObject(memory, object) on the window a store left.
LoadObjectCall ==
    /\ pc = "objStored"
    /\ pc' = "objLoaded"
    /\ ret' = LoadObject(typ, object)
    /\ CacheBecomes(Object_Cached(TheCache, typ))
    /\ UNCHANGED <<typ, arg, stack, before, object>>
    /\ UNCHANGED <<funcVars, memVars, instVars, regVars, gor>>

\* wasmtest.Call up to the call of fn.Func: a zeroed stack of
\* max(NumParams, NumResults) words with the arguments stored one after another.
CallBegin ==
    /\ pc = "idle"
    /\ \E P \in Signatures, R \in ResultTypes, seed \in ArgSeeds, receiver \in Receivers :
         \E hostfn \in HostFuncs(P, R) :
           LET f == F(P, R, hostfn)
               a == [i \in 1..Len(P) |-> ArgValue(P[i], i, seed)]
               s0 == [i \in 1..Max(NumParams(f), NumResults(f)) |-> ZeroWord]
           IN  /\ pc' = "entered"
               /\ fn' = f
               /\ this' = receiver
               /\ args' = a
               /\ stack' = StoreArgs(P, a, 1, 0, s0)
               /\ typ' = R
               /\ UNCHANGED <<arg, before, object, ret, calls, windows, lines, laterVars>>

\* fn.Func(this, ctx, module, stack): the thunk decodes the arguments, calls
\* the host function and stores its result.
ThunkCall ==
    LET out == Func(fn, this, stack) IN
    /\ pc = "entered"
    /\ pc' = "returned"
    /\ before' = stack
    /\ windows' = out.windows
    /\ calls' = Append(calls, [this |-> this, args |-> out.args, result |-> out.result])
    /\ stack' = out.stack
    /\ UNCHANGED <<typ, arg, object, ret, fn, this, args, lines, laterVars>>

\* ret.LoadValue(memory, stack), the value wasmtest.Call returns.
CallEnd ==
    /\ pc = "returned"
    /\ pc' = "called"
    /\ ret' = LoadValue(typ, stack)
    /\ UNCHANGED <<typ, arg, stack, before, object>>
    /\ UNCHANGED <<funcVars, laterVars>>

\* The logger handed to Log: none, or one that keeps the lines printed.
Loggers == {"nil", "logger"}

\* Log(logger).Decorate(module, fn).Func(this, ctx, module, stack) on the stack
\* the caller prepared: the host function returns or panics.
LoggedCall ==
    /\ pc = "entered"
    /\ \E logger \in Loggers, aborts \in BOOLEAN :
         LET out == Log(logger, fn, this, memory, stack, aborts) IN
         /\ pc' = IF out.panicked THEN "logPanic" ELSE "logged"
         /\ arg' = logger
         /\ before' = stack
         /\ stack' = out.stack
         /\ calls' = calls \o out.calls
         /\ lines' = lines \o out.lines
         /\ UNCHANGED <<typ, object, ret, fn, this, args, windows, laterVars>>

\* A guest calls a logged function whose parameters are held in its memory,
\* with the offset and length words it chose: the host function returns,
\* loading what its pointers point to or not, or panics.
LoggedGuestCall ==
    /\ pc = "idle"
    /\ \E mem \in Memories, P \in GuestSignatures, R \in GuestResults :
         \E offset \in GuestOffsets, length \in GuestLengths(P), aborts \in BOOLEAN :
           \E hostfn \in GuestFuncs(R), receiver \in Receivers :
             LET out == Log("logger", F(P, R, hostfn), receiver, mem,
                            GuestStack(P, offset, length), aborts) IN
             /\ pc' = IF out.panicked THEN "logPanic" ELSE "logged"
             /\ arg' = "logger"
             /\ memory' = mem
             /\ fn' = F(P, R, hostfn)
             /\ this' = receiver
             /\ typ' = R
             /\ before' = GuestStack(P, offset, length)
             /\ stack' = out.stack
             /\ calls' = calls \o out.calls
             /\ lines' = lines \o out.lines
             /\ UNCHANGED <<object, ret, args, windows, written, sysVars>>

\* wasm.Read(memory, offset, length) on a memory of some size.
ReadCall ==
    /\ pc = "idle"
    /\ \E mem \in Memories, offset \in Uint32Samples, length \in Uint32Samples :
         /\ pc' = "Read"
         /\ memory' = mem
         /\ UNCHANGED written
         /\ arg' = <<offset, length>>
         /\ ret' = Read(mem, offset, length)
         /\ UNCHANGED <<typ, stack, before, object, funcVars, sysVars>>

\* mem.WriteByte, WriteUint16Le, ..., Write, WriteString(offset, value) on a
\* memory of some size.
WriteCall ==
    /\ pc = "idle"
    /\ \E mem \in Memories, method \in WriteMethods, offset \in Uint32Samples :
         \E value \in WriteValues(method) :
           LET out == Memory_WriteMethod(method, mem, offset, value) IN
           /\ pc' = "Write"
           /\ memory' = mem
           /\ written' = out.written
           /\ arg' = [method |-> method, offset |-> offset, value |-> value]
           /\ ret' = [k |-> out.k]
           /\ UNCHANGED <<typ, stack, before, object, funcVars, sysVars>>

\* Array[T].LoadValue on the stack words (offset, length) of a guest.
ArrayLoadValueCall ==
    /\ pc = "idle"
    /\ \E mem \in Memories, kind \in ElemKinds :
         \E offset \in Uint32Samples, length \in Uint32Samples :
           LET s0 == <<EncodeU32(offset), EncodeU32(length)>> IN
           /\ pc' = "Array.LoadValue"
           /\ memory' = mem
           /\ UNCHANGED written
           /\ typ' = <<"Array", kind>>
           /\ arg' = <<offset, length>>
           /\ stack' = s0
           /\ ret' = Array_LoadValue(mem, KindSize(kind), s0)
           /\ UNCHANGED <<before, object, funcVars, sysVars>>

\* p.Index(i) and p.Index(i).Load() on a pointer at some base offset.
PointerIndexCall ==
    /\ pc = "idle"
    /\ \E mem \in Memories, T \in PtrTypes :
         \E b \in Uint32Samples, i \in Indexes :
           /\ pc' = "Pointer.Index"
           /\ memory' = mem
           /\ UNCHANGED written
           /\ typ' = T
           /\ arg' = [base |-> b, index |-> i]
           /\ ret' = [ptr |-> Pointer_Index(T, Ptr(b), i),
                      load |-> Pointer_Load(mem, T, Pointer_Index(T, Ptr(b), i))]
           /\ CacheBecomes(Pointer_Cached(TheCache, T))
           /\ UNCHANGED <<stack, before, object, funcVars, instVars, regVars, gor>>

\* Ptr(memory, b).Store(v) on a memory of some size.
PointerStoreCall ==
    /\ pc = "idle"
    /\ \E mem \in Memories, T \in PtrTypes :
         \E b \in Uint32Samples, v \in ObjectValues(T) :
           /\ pc' = "Pointer.Store"
           /\ memory' = mem
           /\ ret' = Pointer_Store(mem, T, Ptr(b), v)
           /\ written' = ret'.written
           /\ typ' = T
           /\ arg' = [base |-> b, value |-> v]
           /\ CacheBecomes(Pointer_Cached(TheCache, T))
           /\ UNCHANGED <<stack, before, object, funcVars, instVars, regVars, gor>>

\* MakeList(Ptr(memory, b), n).Slice()
ListSliceCall ==
    /\ pc = "idle"
    /\ \E mem \in Memories, T \in PtrTypes :
         \E b \in Uint32Samples, n \in 0..MaxList :
           /\ pc' = "List.Slice"
           /\ memory' = mem
           /\ UNCHANGED written
           /\ typ' = T
           /\ arg' = [base |-> b, len |-> n]
           /\ ret' = List_Slice(mem, T, MakeList(Ptr(b), n))
           /\ CacheBecomes(List_Slice_Cached(TheCache, T, MakeList(Ptr(b), n)))
           /\ UNCHANGED <<stack, before, object, funcVars, instVars, regVars, gor>>

\* List[T]{Ptr(memory, b), n}.Index(i) for any 32-bit n.
ListIndexCall ==
    /\ pc = "idle"
    /\ \E T \in PtrTypes :
         \E b \in Uint32Samples, n \in Uint32Samples, i \in Indexes :
           /\ pc' = "List.Index"
           /\ typ' = T
           /\ arg' = [base |-> b, len |-> n, index |-> i]
           /\ ret' = List_Index(T, [ptr |-> Ptr(b), len |-> n], i)
           /\ CacheBecomes(List_Index_Cached(TheCache, T, [ptr |-> Ptr(b), len |-> n], i))
           /\ UNCHANGED <<stack, before, object, funcVars, memVars, instVars, regVars, gor>>

\* The test starts the goroutines; nothing is instantiated in the runtime yet.
SpawnInstances ==
    /\ pc = "idle"
    /\ pc' = "instances"
    /\ proc' = [p \in Procs |-> NewProc]
    /\ rt' = <<>>
    /\ UNCHANGED <<dataVars, regVars, cacheVars>>

\* CompiledModule.Instantiate, first half: c.runtime.InstantiateModule.
RuntimeInstantiate(p) ==
    /\ pc = "instances"
    /\ proc[p].pc = "start"
    /\ \E ok \in BOOLEAN :
         IF ok
         THEN /\ rt' = Append(rt, [owner |-> p, closed |-> FALSE])
              /\ proc' = [proc EXCEPT ![p] = [@ EXCEPT !.pc = "module",
                                                       !.module = Len(rt) + 1]]
         ELSE /\ rt' = rt
              /\ proc' = [proc EXCEPT ![p] = [@ EXCEPT !.pc = "failed"]]
    /\ UNCHANGED <<pc, dataVars, regVars, cacheVars>>

\* CompiledModule.Instantiate, second half: c.HostModule.Instantiate with the
\* goroutine's options; the runtime module is closed when that fails.
HostInstantiate(p) ==
    /\ pc = "instances"
    /\ proc[p].pc = "module"
    /\ \E ok \in BOOLEAN :
         IF ok
         THEN /\ rt' = rt
              /\ proc' = [proc EXCEPT ![p] = [@ EXCEPT
                    !.pc = "ready",
                    !.ins = [k |-> "ModuleInstance", module |-> proc[p].module,
                             instance |-> [k |-> "instance", id |-> p,
                                           answer |-> Answer(p)]]]]
         ELSE /\ rt' = [rt EXCEPT ![proc[p].module] = [@ EXCEPT !.closed = TRUE]]
              /\ proc' = [proc EXCEPT ![p] = [@ EXCEPT !.pc = "failed"]]
    /\ UNCHANGED <<pc, dataVars, regVars, cacheVars>>

\* ctx = WithModuleInstance(parent, instance), the parent being the background
\* context or a context another goroutine has made.
WithModuleInstanceCall(p) ==
    /\ pc = "instances"
    /\ proc[p].pc = "ready"
    /\ \E parent \in {Background} \cup { proc[q].ctx : q \in Procs } :
         proc' = [proc EXCEPT ![p] = [@ EXCEPT
                    !.pc = "context",
                    !.ctx = WithModuleInstance(parent, HostModuleType, proc[p].ins)]]
    /\ UNCHANGED <<pc, rt, dataVars, regVars, cacheVars>>

\* contextualizedGoModuleFunction.Call, first statement: the receiver is
\* resolved from the context of the call.
CallResolve(p) ==
    /\ pc = "instances"
    /\ proc[p].pc = "context"
    /\ proc[p].calls < MaxCalls
    /\ proc' = [proc EXCEPT ![p] = [@ EXCEPT
                   !.pc = "bound",
                   !.this = Call_this(proc[p].ctx, HostModuleType)]]
    /\ UNCHANGED <<pc, rt, dataVars, regVars, cacheVars>>

\* contextualizedGoModuleFunction.Call, second statement: f(this, ...), the
\* bound function answering with the state of its receiver.
CallInvoke(p) ==
    /\ pc = "instances"
    /\ proc[p].pc = "bound"
    /\ proc' = [proc EXCEPT ![p] = [@ EXCEPT
                   !.pc = "context",
                   !.got = IF proc[p].this.k = "instance"
                           THEN proc[p].this.answer ELSE 0 - 1,
                   !.calls = @ + 1]]
    /\ UNCHANGED <<pc, rt, dataVars, regVars, cacheVars>>

\* The state of the registry as the operations' outcomes record it.
Now == World(registry, hosts, mods)

\* NewCompilationContext and NewInstantiationContext on an open runtime.
NewContexts ==
    /\ pc = "idle"
    /\ \E b \in Builds :
         /\ pc' = "registry"
         /\ build' = b
         /\ cctx' = [runtime |-> TRUE]
         /\ ictx' = [runtime |-> TRUE, modules |-> "map"]
         /\ registry' = NoModules
         /\ last' = [op |-> "New"]
         /\ UNCHANGED <<compiled, hosts, mods, ctxs, wctxs, alone, dataVars, instVars, cacheVars>>

\* func (ctx *CompilationContext) Close(context.Context) error
CompilationContextClose ==
    /\ pc = "registry"
    /\ build = "part_003"
    /\ cctx' = [runtime |-> FALSE]
    /\ last' = [op |-> "CompilationContext.Close"]
    /\ UNCHANGED <<pc, build, compiled, ictx, registry, hosts, mods, ctxs, wctxs, alone>>
    /\ UNCHANGED <<dataVars, instVars, cacheVars>>

\* Compile[T]: in part_003 on the CompilationContext, which must hold a
\* runtime; in module.go on the runtime itself. Build(...).Compile(ctx)
\* compiles the module or fails to, and its error is returned with no module.
CompileCall(T) ==
    /\ pc = "registry"
    /\ IF build = "part_003" /\ ~cctx.runtime
       THEN /\ compiled' = compiled
            /\ last' = [op |-> "Compile", type |-> T, result |-> "ErrNoRuntime",
                        closed |-> TRUE]
       ELSE \E ok \in BOOLEAN :
              IF ok
              THEN /\ compiled' = compiled \cup {T}
                   /\ last' = [op |-> "Compile", type |-> T, result |-> "ok",
                               closed |-> build = "part_003" /\ ~cctx.runtime]
              ELSE /\ compiled' = compiled
                   /\ last' = [op |-> "Compile", type |-> T, result |-> "error",
                               closed |-> build = "part_003" /\ ~cctx.runtime]
    /\ UNCHANGED <<pc, build, cctx, ictx, registry, hosts, mods, ctxs, wctxs, alone>>
    /\ UNCHANGED <<dataVars, instVars, cacheVars>>

\* Instantiate[T](ctx, compiled): part_003 returns ErrNoRuntime on a context
\* without runtime; otherwise the host instance is created and assigned to
\* ctx.modules (a panic when that map is nil), and the runtime instantiates
\* the module or fails to.  The call ends the time the modules of type T made
\* before had their type to themselves; the module it returns starts its own.
InstantiateCall(T) ==
    /\ pc = "registry"
    /\ T \in compiled
    /\ Len(hosts) < MaxHosts
    /\ LET out(result, module) ==
               [op |-> "Instantiate", type |-> T, result |-> result,
                module |-> module, closed |-> ~ictx.runtime, before |-> Now]
           hs1 == Append(hosts, [type |-> T, closes |-> 0])
       IN IF build = "part_003" /\ ~ictx.runtime
          THEN /\ last' = out("ErrNoRuntime", 0)
               /\ UNCHANGED <<registry, hosts, mods>>
          ELSE IF ictx.modules = "nil"
          THEN /\ last' = out("panic", 0)
               /\ hosts' = hs1
               /\ UNCHANGED <<registry, mods>>
          ELSE /\ hosts' = hs1
               /\ registry' = [registry EXCEPT ![T] = Len(hs1)]
               /\ \E ok \in BOOLEAN :
                    IF ok
                    THEN /\ mods' = Append(mods, [type |-> T, instance |-> Len(hs1),
                                                  modules |-> "map", closed |-> 0])
                         /\ last' = out("ok", Len(mods) + 1)
                    ELSE /\ mods' = mods
                         /\ last' = out("error", 0)
    /\ alone' = { m \in alone : mods[m].type /= T }
                   \cup IF last'.result = "ok" THEN {last'.module} ELSE {}
    /\ UNCHANGED <<pc, build, cctx, compiled, ictx, ctxs, wctxs>>
    /\ UNCHANGED <<dataVars, instVars, cacheVars>>

\* func NewCallContext(ctx context.Context, ins *InstantiationContext) context.Context
NewCallContextCall ==
    /\ pc = "registry"
    /\ ctxs' = ctxs \cup {ictx.modules}
    /\ last' = [op |-> "NewCallContext"]
    /\ UNCHANGED <<pc, build, cctx, compiled, ictx, registry, hosts, mods, wctxs, alone>>
    /\ UNCHANGED <<dataVars, instVars, cacheVars>>

\* An exported function of module m is called under one of the call contexts:
\* contextualizedGoModuleFunction[T].Call.
ExportedCall(m) ==
    /\ pc = "registry"
    /\ \E ref \in ctxs :
         last' = [op |-> "Call", module |-> m, ctx |-> ref,
                  this |-> Registry_this(registry, ref, mods[m].type),
                  before |-> Now]
    /\ UNCHANGED <<pc, build, cctx, compiled, ictx, registry, hosts, mods, ctxs, wctxs, alone>>
    /\ UNCHANGED <<dataVars, instVars, cacheVars>>

\* Close or CloseWithExitCode on the module m that Instantiate returned.
ModuleClose(m) ==
    /\ pc = "registry"
    /\ mods[m].closed < MaxCloses
    /\ \E how \in {"Close", "CloseWithExitCode"} :
         LET w == moduleInstance_Close(Now, m) IN
         /\ registry' = w.registry
         /\ hosts' = w.hosts
         /\ mods' = w.mods
         /\ last' = [op |-> how, module |-> m, before |-> Now]
    /\ alone' = { x \in alone : mods[x].type /= mods[m].type }
    /\ UNCHANGED <<pc, build, cctx, compiled, ictx, ctxs, wctxs>>
    /\ UNCHANGED <<dataVars, instVars, cacheVars>>

\* func (ins *InstantiationContext) Close(ctx context.Context) error
InstantiationContextClose ==
    /\ pc = "registry"
    /\ hosts' = IF ictx.modules = "map" THEN CloseAll(hosts, registry, ModuleTypes)
                ELSE hosts
    /\ ictx' = [runtime |-> FALSE, modules |-> "nil"]
    /\ last' = [op |-> "InstantiationContext.Close", before |-> Now,
                open |-> ictx.modules = "map"]
    /\ UNCHANGED <<pc, build, cctx, compiled, registry, mods, ctxs, wctxs, alone>>
    /\ UNCHANGED <<dataVars, instVars, cacheVars>>

\* WithCallContext[T](ctx, mod) on the background context, on a context made by
\* NewCallContext or on one made by WithCallContext: a host instance is
\* created and the context with the copied map is returned, with the function
\* that closes the instance (WithCallContextClose calls it).
WithCallContextCall(T) ==
    /\ pc = "registry"
    /\ Len(hosts) < MaxHosts
    /\ \E parent \in {BackgroundContext} \cup { CallContext(ref) : ref \in ctxs } \cup wctxs :
         LET hs1 == Append(hosts, [type |-> T, closes |-> 0])
             out == WithCallContext(registry, parent, T, Len(hs1))
         IN  /\ hosts' = hs1
             /\ registry' = out.registry
             /\ wctxs' = wctxs \cup {out.ctx}
             /\ last' = [op |-> "WithCallContext", type |-> T, parent |-> parent,
                         prev |-> Context_modules(registry, parent),
                         made |-> out.ctx, before |-> Now]
    /\ UNCHANGED <<pc, build, cctx, compiled, ictx, mods, ctxs, alone>>
    /\ UNCHANGED <<dataVars, instVars, cacheVars>>

\* The functions WithCallContext returned are called when the program is done
\* with the contexts, as a deferred call is: func() { instance.Close(ctx) } of
\* the context c, each up to MaxCloses times.
WithCallContextClose ==
    /\ pc \in {"registry", "closing"}
    /\ pc' = "closing"
    /\ \E c \in wctxs :
         /\ hosts[c.instance].closes < MaxCloses
         /\ hosts' = Host_Close(hosts, c.instance)
         /\ last' = [op |-> "WithCallContext.close"]
    /\ UNCHANGED <<build, cctx, compiled, ictx, registry, mods, ctxs, wctxs, alone>>
    /\ UNCHANGED <<dataVars, instVars, cacheVars>>

\* An exported function of a module of type T is called under a context made
\* by WithCallContext: contextualizedGoModuleFunction[T].Call.
DerivedCall(T) ==
    /\ pc = "registry"
    /\ \E c \in wctxs :
         last' = [op |-> "CallUnder", type |-> T, ctx |-> c,
                  this |-> Registry_this(c.modules, "map", T),
                  before |-> Now]
    /\ UNCHANGED <<pc, build, cctx, compiled, ictx, registry, hosts, mods, ctxs, wctxs, alone>>
    /\ UNCHANGED <<dataVars, instVars, cacheVars>>

\* The goroutines start with the cache as the program start leaves it: empty.
SpawnLookups ==
    /\ pc = "idle"
    /\ pc' = "cache"
    /\ gor' = [g \in Goroutines |-> NewGoroutine]
    /\ UNCHANGED <<objectTypes, maps, frozen, dataVars, instVars, regVars>>

\* cachedObjectTypeOf(t): cache, _ := objectTypes.Load().(map...)
CacheLoad(g) ==
    /\ pc = "cache"
    /\ gor[g].pc = "ready"
    /\ gor[g].calls < MaxLookups
    /\ \E t \in CacheTypes :
         gor' = [gor EXCEPT ![g] = [@ EXCEPT !.pc = "loaded", !.t = t,
                                              !.cache = objectTypes]]
    /\ UNCHANGED <<pc, objectTypes, maps, frozen, dataVars, instVars, regVars>>

\* typ, ok := cache[typeid(t)]; on a miss typ = objectTypeOf(t) and the new
\* map is made.
CacheLookup(g) ==
    /\ pc = "cache"
    /\ gor[g].pc = "loaded"
    /\ IF HasKey(MapAt(maps, gor[g].cache), gor[g].t)
       THEN /\ gor' = [gor EXCEPT ![g] = [@ EXCEPT
                         !.pc = "returned", !.hit = TRUE,
                         !.ret = Lookup(MapAt(maps, gor[g].cache), gor[g].t)]]
            /\ UNCHANGED <<maps, frozen>>
       ELSE LET made == makeCache(maps, gor[g].cache) IN
            /\ maps' = made.maps
            /\ frozen' = IF Len(made.maps) > Len(maps)
                         THEN Append(frozen, [pub |-> FALSE, content |-> {}])
                         ELSE frozen
            /\ gor' = [gor EXCEPT ![g] = [@ EXCEPT
                         !.pc = "copy", !.hit = FALSE, !.new = made.new,
                         !.typ = objectTypeOf(gor[g].t)]]
    /\ UNCHANGED <<pc, objectTypes, dataVars, instVars, regVars>>

\* for k, v := range cache { newCache[k] = v }; newCache[typeid(t)] = typ
CacheCopy(g) ==
    /\ pc = "cache"
    /\ gor[g].pc = "copy"
    /\ maps' = [maps EXCEPT ![gor[g].new] =
                   Insert(@ \cup MapAt(maps, gor[g].cache), gor[g].t, gor[g].typ)]
    /\ gor' = [gor EXCEPT ![g] = [@ EXCEPT !.pc = "store"]]
    /\ UNCHANGED <<pc, objectTypes, frozen, dataVars, instVars, regVars>>

\* objectTypes.Store(newCache); return typ
CacheStore(g) ==
    /\ pc = "cache"
    /\ gor[g].pc = "store"
    /\ objectTypes' = gor[g].new
    /\ frozen' = [frozen EXCEPT ![gor[g].new] =
                     [pub |-> TRUE, content |-> maps[gor[g].new]]]
    /\ gor' = [gor EXCEPT ![g] = [@ EXCEPT !.pc = "returned", !.ret = gor[g].typ]]
    /\ UNCHANGED <<pc, maps, dataVars, instVars, regVars>>

\* The caller has the descriptor and goes on to its next call.
CacheReturn(g) ==
    /\ pc = "cache"
    /\ gor[g].pc = "returned"
    /\ gor' = [gor EXCEPT ![g] = [@ EXCEPT !.pc = "ready", !.calls = @ + 1]]
    /\ UNCHANGED <<pc, objectTypes, maps, frozen, dataVars, instVars, regVars>>

\* The layouts of a record that embeds a sub-record and of its inline
\* counterpart are derived: structTypeOf of each.
StructTypeCall ==
    /\ pc = "idle"
    /\ \E e \in Embeddings :
         /\ pc' = "layout"
         /\ arg' = e
         /\ ret' = [embedding |-> structTypeOf(e.embedding),
                    inline |-> structTypeOf(e.inline)]
         /\ UNCHANGED <<typ, stack, before, object, funcVars, memVars, sysVars>>

Next ==
    \/ StoreValueCall
    \/ GuestPush
    \/ LoadValueCall
    \/ AsErrnoCall
    \/ StoreObjectCall
    \/ LoadObjectCall
    \/ CallBegin
    \/ ThunkCall
    \/ CallEnd
    \/ LoggedCall
    \/ LoggedGuestCall
    \/ ReadCall
    \/ WriteCall
    \/ ArrayLoadValueCall
    \/ PointerIndexCall
    \/ PointerStoreCall
    \/ ListSliceCall
    \/ ListIndexCall
    \/ SpawnInstances
    \/ \E p \in Procs : RuntimeInstantiate(p)
    \/ \E p \in Procs : HostInstantiate(p)
    \/ \E p \in Procs : WithModuleInstanceCall(p)
    \/ \E p \in Procs : CallResolve(p)
    \/ \E p \in Procs : CallInvoke(p)
    \/ NewContexts
    \/ CompilationContextClose
    \/ \E T \in ModuleTypes : CompileCall(T)
    \/ \E T \in ModuleTypes : InstantiateCall(T)
    \/ NewCallContextCall
    \/ \E m \in DOMAIN mods : ExportedCall(m)
    \/ \E m \in DOMAIN mods : ModuleClose(m)
    \/ InstantiationContextClose
    \/ \E T \in ModuleTypes : WithCallContextCall(T)
    \/ WithCallContextClose
    \/ \E T \in ModuleTypes : DerivedCall(T)
    \/ StructTypeCall
    \/ SpawnLookups
    \/ \E g \in Goroutines : CacheLoad(g)
    \/ \E g \in Goroutines : CacheLookup(g)
    \/ \E g \in Goroutines : CacheCopy(g)
    \/ \E g \in Goroutines : CacheStore(g)
    \/ \E g \in Goroutines : CacheReturn(g)

Spec == Init /\ [][Next]_vars

-----------------------------------------------------------------------------
(* Claims about the stack codec. *)

\* C1: stack round trip. For every scalar type T usable as parameter and result
\* (Bool, the integers, the floats as bit patterns, Duration, None) and every
\* value v of T, v.StoreValue on a stack of len(v.ValueTypes()) words (or more)
\* followed by T.LoadValue on that stack returns exactly v.
C1_StackRoundTrip ==
    (pc = "loaded" /\ ~IsOptional(typ) /\ typ[1] /= "Errno") => ret = arg

\* Int16(-32768) was stored sign-extended to 32 bits and loaded back.
C1_Witness ==
    /\ pc = "loaded"
    /\ typ = <<"Int16">>
    /\ arg = <<0, 128>>
    /\ stack[1] = <<0, 128, 255, 255, 0, 0, 0, 0>>

RECURSIVE Packed(_, _, _), PackedFields(_, _, _, _), PackedItems(_, _, _, _)
\* The scalars of the value of type t at p of host memory hv, in declaration
\* order, each least significant byte first, with nothing between them.
Packed(t, p, hv) ==
    CASE t.k = "prim" -> SubSeq(hv, p + 1, p + KindSize(t.kind))
      [] t.k = "array" -> PackedItems(t, 0, p, hv)
      [] t.k = "struct" -> PackedFields(t, 1, p, hv)

PackedFields(t, i, p, hv) ==
    IF i > Len(t.fields) THEN <<>>
    ELSE Packed(t.fields[i].Type, p + FieldOffset(t.fields, i), hv)
         \o PackedFields(t, i + 1, p, hv)

PackedItems(t, i, p, hv) ==
    IF i >= t.len THEN <<>>
    ELSE Packed(t.elem, p + i * GoSize(t.elem), hv) \o PackedItems(t, i + 1, p, hv)

\* The bytes the spec gives a value v of Object type T.
ObjectImage(T, v) ==
    IF IsStruct(T) THEN Packed(T[2], 0, v)
    ELSE IF T = <<"Bool">> THEN (IF v THEN <<1>> ELSE <<0>>)
    ELSE IF T = <<"None">> THEN <<>>
    ELSE v

RECURSIVE HoldsOtherKind(_)
HoldsOtherKind(t) ==
    CASE t.k = "prim" ->
           t.kind \notin {"int8", "int16", "int32", "int64", "uint8", "uint16",
                          "uint32", "uint64", "float32", "float64"}
      [] t.k = "array" -> HoldsOtherKind(t.elem)
      [] t.k = "struct" -> \E i \in 1..Len(t.fields) : HoldsOtherKind(t.fields[i].Type)

RECURSIVE NoError(_, _)
NoError(T, v) ==
    IF IsOptional(T) THEN v.err = Nil /\ NoError(Elem(T), v.res) ELSE TRUE

C4_OptionalErrorRoundTrip ==
    (/\ pc = "loaded"
     /\ IsOptional(typ)
     /\ \E c \in {I32(5), I32(-1)} : arg = Err(Elem(typ), ErrnoError(c)))
    => ret.err = arg.err

\* C5: optional positional layout. ValueTypes of Optional[T] is T's followed by
\* one i32; StoreValue writes only words 0..n; on error the payload words are 0
\* and word n holds the non-zero code; on success words 0..n-1 hold T's encoding
\* and word n holds 0.
C5_OptionalLayout ==
    (pc = "stored" /\ IsOptional(typ)) =>
        LET n == Len(ValueTypes(Elem(typ))) IN
        /\ ValueTypes(typ) = ValueTypes(Elem(typ)) \o <<"i32">>
        /\ Len(stack) = Len(before)
        /\ \A i \in (n + 2)..Len(stack) : stack[i] = before[i]
        /\ arg.err /= Nil =>
            /\ \A i \in 1..n : stack[i] = ZeroWord
            /\ stack[n + 1] /= ZeroWord
        /\ arg.err = Nil =>
            /\ Slice(stack, 0, n) = StoreValue(Elem(typ), arg.res, Slice(before, 0, n))
            /\ stack[n + 1] = ZeroWord

\* C6: optional decode does not read the payload of an error. When the trailing
\* code word is non-zero the decoded Optional carries the error and T's zero
\* value, whatever the payload words contain.
C6_ErrorPayloadNotRead ==
    (pc = "decoded" /\ IsOptional(typ)) =>
        LET n == Len(ValueTypes(Elem(typ)))
            code == DecodeI32(stack[n + 1])
        IN  code /= I32(0) => ret = Err(Elem(typ), ErrnoError(code))

\* C7: AsErrno returns 0 if and only if the error is nil, whatever the chain of
\* wrapped causes.
C7_ZeroIffNil ==
    pc = "AsErrno" => ((ret = I32(0)) <=> (arg = Nil))

\* The code of the first error of the chain, starting with the error itself,
\* that has an Errno() method or is a syscall errno; -1 when none has.
RECURSIVE FirstCode(_)
FirstCode(err) ==
    IF err = Nil THEN I32(-1)
    ELSE IF err[1].kind = "errno" THEN err[1].code
    ELSE IF err[1].kind = "syscall" THEN Trunc(err[1].code, 4)
    ELSE FirstCode(Tail(err))

\* C8: AsErrno unwrap order. For a non-nil error, AsErrno returns the code of
\* the first error in the chain e, Unwrap(e), ..., starting with e itself, that
\* provides a code, and -1 when none does.
C8_UnwrapOrder ==
    (pc = "AsErrno" /\ arg /= Nil) => ret = FirstCode(arg)

\* The number of stack words of the first i parameter types of P.
PrefixWords(P, i) == Len(concatValueTypes(SubSeq(P, 1, i)))

\* Window i is exactly the words [n_1+...+n_(i-1), n_1+...+n_i), where the
\* flat signature holds the word kinds of P[i].
ExactWindow(P, w, i) ==
    /\ w[i].lo = PrefixWords(P, i - 1)
    /\ w[i].hi = PrefixWords(P, i)
    /\ SubSeq(concatValueTypes(P), w[i].lo + 1, w[i].hi) = ValueTypes(P[i])

\* The windows are contiguous, start at word 0 and end at word total.
Partition(w, total) ==
    /\ w[1].lo = 0
    /\ \A i \in 1..(Len(w) - 1) : w[i].hi = w[i + 1].lo
    /\ \A i \in 1..Len(w) : w[i].lo <= w[i].hi
    /\ w[Len(w)].hi = total

\* C9 as stated: for every arity N in 1..12 the window the thunk hands to
\* parameter i is exactly the words [n_1+...+n_(i-1), n_1+...+n_i); the windows
\* are disjoint, contiguous and cover [0, NumParams()), and window i sits at the
\* positions of P_i's word kinds in concatValueTypes(Params).
C9_SlotPartition ==
    (pc \in {"returned", "called"} /\ Len(fn.Params) >= 1) =>
      /\ Len(windows) = Len(fn.Params)
      /\ \A i \in 1..Len(windows) : ExactWindow(fn.Params, windows, i)
      /\ Partition(windows, NumParams(fn))

\* C9, amended: for every arity N in 2..12 the windows are exactly the
\* prefix-sum intervals and partition [0, NumParams()); for N = 1 the thunk
\* hands the whole stack to the parameter, a window that starts at word 0, has
\* max(NumParams(), NumResults()) words and begins with the parameter's n_1 words.
C9_SlotPartitionFrom2 ==
    (pc \in {"returned", "called"} /\ Len(fn.Params) >= 1) =>
      /\ Len(windows) = Len(fn.Params)
      /\ Len(fn.Params) >= 2 =>
           /\ \A i \in 1..Len(windows) : ExactWindow(fn.Params, windows, i)
           /\ Partition(windows, NumParams(fn))
      /\ Len(fn.Params) = 1 =>
           /\ windows[1].lo = 0
           /\ windows[1].hi = Len(before)
           /\ Len(before) = Max(NumParams(fn), NumResults(fn))
           /\ windows[1].hi >= PrefixWords(fn.Params, 1)
           /\ SubSeq(concatValueTypes(fn.Params), 1, PrefixWords(fn.Params, 1))
                = ValueTypes(fn.Params[1])

\* The thunk of F12 has sliced twelve windows of 0, 1, 2 and 3 words.
C9_Witness ==
    /\ pc = "returned"
    /\ Len(fn.Params) = MaxArity
    /\ fn.Params[1] = <<"Optional", "Int32">>
    /\ windows[2] = [lo |-> 2, hi |-> 2]
    /\ windows[4] = [lo |-> 3, hi |-> 6]
    /\ windows[MaxArity] = [lo |-> 16, hi |-> 16]
    /\ NumParams(fn) = 16

\* The words the spec gives a value v of type T: a scalar's word, and for
\* Optional[T] the payload followed by 0, or zeroed words followed by the code.
RECURSIVE Encoding(_, _)
Encoding(T, v) ==
    IF IsOptional(T)
    THEN IF v.err = Nil
         THEN Encoding(Elem(T), v.res) \o <<EncodeI32(I32(0))>>
         ELSE [i \in 1..Len(ValueTypes(Elem(T))) |-> ZeroWord]
              \o <<EncodeI32(FirstCode(v.err))>>
    ELSE StoreValue(T, v, [i \in 1..Len(ValueTypes(T)) |-> ZeroWord])

\* The encodings of a1..aN one after another.
RECURSIVE concatEncodingsFrom(_, _, _)
concatEncodingsFrom(P, a, i) ==
    IF i > Len(P) THEN <<>>
    ELSE Encoding(P[i], a[i]) \o concatEncodingsFrom(P, a, i + 1)

concatEncodings(P, a) == concatEncodingsFrom(P, a, 1)

\* C10: the thunk built by F_N(f), called on a stack of max(param words, result
\* words) words holding the encodings of a1..aN, invokes f exactly once with the
\* given receiver and the decoded a1..aN; on return the stack, read from word 0,
\* is the encoding of f's result; the arguments are those of the stack at entry.
C10_ThunkResult ==
    pc \in {"returned", "called"} =>
      LET P == fn.Params
          R == fn.Results[1]
          r == Invoke(fn.fn, this, args)
      IN  /\ Len(before) = Max(NumParams(fn), NumResults(fn))
          /\ SubSeq(before, 1, NumParams(fn))
               = concatEncodings(P, args)
          /\ calls = <<[this |-> this, args |-> args, result |-> r]>>
          /\ SubSeq(stack, 1, NumResults(fn)) = Encoding(R, r)

-----------------------------------------------------------------------------
(* Memory access. *)

\* An integer widened by one byte, so that a sum of two does not wrap.
Wide(a) == a \o <<0>>
\* Whether [offset, offset + length) ends past the size, the sum taken exactly.
EndsPast(size, offset, length) ==
    UintLess(Wide(size), UintAdd(Wide(offset), Wide(length)))

\* C11: on a memory of S bytes, wasm.Read(memory, offset, length) panics with
\* SEGFAULT{offset, length} whenever offset + length (taken without wrap-around)
\* exceeds S or offset >= S, and otherwise returns the bytes [offset, offset + length).
C11_ReadBounds ==
    pc = "Read" =>
        LET offset == arg[1]
            length == arg[2]
            S == Memory_Size(memory)
        IN IF EndsPast(S, offset, length) \/ UintLeq(S, offset)
           THEN ret = SEGFAULT(offset, length)
           ELSE /\ ret.k = "slice"
                /\ ret.len = length
                /\ length /= Zeros(4) =>
                      /\ ret.base = offset
                      /\ BytesFrom(memory, ret.base, 1) = <<ByteAt(memory, offset)>>

\* A read of the last eight bytes of a written memory succeeded.
C11_Witness ==
    /\ pc = "Read"
    /\ ret.k = "slice"
    /\ ret.len = I32(8)
    /\ UintAdd(ret.base, ret.len) = Memory_Size(memory)
    /\ memory.seed /= 0

\* The write wrote exactly the bytes of the value at offset, offset + 1, ...
WroteAt(offset, value) ==
    /\ { x.addr : x \in written } = { UintAdd(offset, I32(i - 1)) : i \in 1..Len(value) }
    /\ Cardinality(written) = Len(value)
    /\ \A i \in 1..Len(value) :
          ByteNow(memory, written, UintAdd(offset, I32(i - 1))) = value[i]

\* C24: failed memory writes are signalled. Every write method of the fixed-size
\* Memory, called with an offset such that [offset, offset + width) is not inside
\* [0, Size()), returns false, does not abort and leaves every byte of the memory
\* unchanged; otherwise it writes exactly width bytes at offset and returns true.
C24_WriteSignalled ==
    pc = "Write" =>
        LET width == WriteWidth(arg.method, arg.value)
            S == Memory_Size(memory)
        IN  IF EndsPast(S, arg.offset, I32(width)) \/ UintLeq(S, arg.offset)
            THEN ret.k = "false" /\ written = {}
            ELSE ret.k = "true" /\ WroteAt(arg.offset, arg.value)

\* The same for the methods that test the width they write: all but
\* WriteUint64Le and WriteFloat64Le.
C24_WriteSignalledButUint64 ==
    (pc = "Write" /\ arg.method \notin {"WriteUint64Le", "WriteFloat64Le"})
        => C24_WriteSignalled

\* C12: for every primitive element type T and every 32-bit (offset, length),
\* Array[T].LoadValue either panics with SEGFAULT or returns a view of exactly
\* length elements whose bytes [offset, offset + length * sizeof(T)) all lie
\* inside the memory; it never returns a view that extends past the memory.
C12_ArrayInBounds ==
    pc = "Array.LoadValue" =>
        \/ ret.k = "SEGFAULT"
        \/ /\ ret.k = "array"
           /\ ret.len = arg[2]
           /\ ret.len /= Zeros(4) => ret.base = arg[1]
           /\ ~UintLess(Wide(Memory_Size(memory)),
                        UintAdd(Wide(ret.base), UintMul(Wide(ret.len), ret.size)))

\* The address b + i * s, taken exactly in five bytes by repeated addition,
\* for a non-negative index i.
RECURSIVE ExactAddress(_, _, _)
ExactAddress(b, i, size) ==
    IF i = 0 THEN Wide(b)
    ELSE UintAdd(ExactAddress(b, i - 1, size), Wide(I32(size)))

\* The address of item i of a pointer at b in the 32-bit address space:
\* b + i * s for i >= 0 and b - |i| * s for i < 0, modulo 2^32.
RECURSIVE ItemAddress(_, _, _)
ItemAddress(b, i, size) ==
    IF i >= 0 THEN Trunc(ExactAddress(b, i, size), 4)
    ELSE UintSub(ItemAddress(b, i + 1, size), I32(size))

\* The T decoded from the s bytes at an address, or the SEGFAULT of a read
\* of s bytes there when they are not all inside the memory.
DirectLoad(mem, T, addr) ==
    IF EndsPast(Memory_Size(mem), addr, I32(ObjectSize(T)))
          \/ UintLeq(Memory_Size(mem), addr)
    THEN SEGFAULT(addr, I32(ObjectSize(T)))
    ELSE [k |-> "value", v |-> LoadObject(T, BytesFrom(mem, addr, ObjectSize(T)))]

\* Indexing: for a Pointer[T] at base offset b with s = ObjectSize(T),
\* Index(i) addresses b + i * s and Index(i).Load() decodes the s bytes there.
C13_PointerIndex ==
    pc = "Pointer.Index" =>
        LET addr == ItemAddress(arg.base, arg.index, ObjectSize(typ)) IN
        /\ ret.ptr = Ptr(addr)
        /\ ret.load = DirectLoad(memory, typ, addr)
        /\ (arg.index >= 0 /\ ExactAddress(arg.base, arg.index, ObjectSize(typ))[5] = 0)
             => Wide(ret.ptr.offset) = ExactAddress(arg.base, arg.index, ObjectSize(typ))

\* The values at items 0..n-1, or the first panic among their loads.
RECURSIVE DirectItems(_, _, _, _, _)
DirectItems(mem, T, b, i, n) ==
    IF i >= n THEN <<>>
    ELSE <<DirectLoad(mem, T, ItemAddress(b, i, ObjectSize(T)))>>
             \o DirectItems(mem, T, b, i + 1, n)

\* Slicing: for a List of length n, Slice() returns exactly the n values
\* Index(0).Load(), ..., Index(n-1).Load() in order; when one of the loads
\* panics, Slice panics with the first of them.
C13_ListSlice ==
    pc = "List.Slice" =>
        LET items == DirectItems(memory, typ, arg.base, 0, arg.len)
            bad == { i \in 1..arg.len : items[i].k /= "value" }
        IN IF bad = {}
           THEN ret = [k |-> "values", vs |-> [i \in 1..arg.len |-> items[i].v]]
           ELSE ret = items[CHOOSE i \in bad : \A j \in bad : i <= j]

\* Bounds: List.Index(i) panics for i < 0 or i >= n, and is the
\* pointer's Index(i) otherwise.
C13_ListIndex ==
    pc = "List.Index" =>
        IF arg.index < 0 \/ UintLeq(arg.len, I32(arg.index))
        THEN ret.k = "panic"
        ELSE ret = Ptr(ItemAddress(arg.base, arg.index, ObjectSize(typ)))

\* C13: for a Pointer[T] at base offset b with s = ObjectSize(T), Index(i)
\* addresses b + i * s (in the 32-bit address space) and Index(i).Load() decodes
\* the s bytes starting there; for a List of length n, Slice() returns exactly
\* the n values Index(0).Load(), ..., Index(n-1).Load() in order, and
\* List.Index(i) panics for i < 0 or i >= n.
C13_PointerIndexing == C13_PointerIndex /\ C13_ListSlice /\ C13_ListIndex

\* A list of MaxList records was sliced out of a written memory, and its
\* first two items differ.
C13_Witness ==
    /\ pc = "List.Slice"
    /\ typ = <<"Struct", Vec3d>>
    /\ memory.seed /= 0
    /\ ret.k = "values"
    /\ Len(ret.vs) = MaxList
    /\ ret.vs[1] /= ret.vs[2]

-----------------------------------------------------------------------------
(* Module instances. *)

\* C14: for module instances of the same module type created with distinct
\* initial state, a call made under WithModuleInstance(ctx, A) runs the bound
\* function with A's receiver, under every interleaving of the goroutines'
\* instantiations and calls; it never resolves to another instance's state.
C14_InstanceIsolation ==
    pc = "instances" =>
        \A p \in Procs :
            /\ proc[p].pc = "bound" =>
                  /\ proc[p].this = proc[p].ins.instance
                  /\ \A q \in Procs \ {p} :
                        proc[q].ins.k = "ModuleInstance"
                            => proc[p].this /= proc[q].ins.instance
            /\ proc[p].calls > 0 => proc[p].got = Answer(p)

\* Two goroutines have each been called under their own context, one of the
\* contexts derived from the other.
C14_Witness ==
    /\ pc = "instances"
    /\ proc[1].calls > 0
    /\ proc[2].calls > 0
    /\ Len(proc[2].ctx) = 2
    /\ proc[1].pc = "bound"

-----------------------------------------------------------------------------
(* The instance registry. *)

\* C15: after Instantiate[T] succeeds on an InstantiationContext, every
\* exported call dispatched under a context from NewCallContext on that
\* InstantiationContext runs with the instance created by that Instantiate as
\* receiver; instances of distinct module types each resolve to their own
\* receiver, and ordinary calls never modify the registry.
C15_RegistryResolution ==
    (pc = "registry" /\ last.op = "Call") =>
        /\ last.this = [k |-> "instance", id |-> mods[last.module].instance]
        /\ Now = last.before

\* C15, amended: the call runs with the instance created by that Instantiate
\* when the call context was made before the InstantiationContext was closed
\* and, since that Instantiate returned the module, no other Instantiate[T] of
\* its module type was called on the context and no module of its type was
\* closed (the modules in alone); an Instantiate[T] that follows the Close of
\* the earlier module of its type is covered, and so are the host instances
\* WithCallContext makes; ordinary calls never modify the registry.
C15_RegistryResolutionSinceInstantiate ==
    (pc = "registry" /\ last.op = "Call") =>
        /\ (last.module \in alone /\ last.ctx = "map")
             => last.this = [k |-> "instance", id |-> mods[last.module].instance]
        /\ Now = last.before

\* A module was instantiated and closed, a module of the same type was
\* instantiated after it, and a call of the second one ran with its own
\* instance, which is not the instance of the first.
C15_Witness ==
    /\ pc = "registry"
    /\ last.op = "Call"
    /\ last.module = 2
    /\ mods[1].type = mods[2].type
    /\ mods[1].closed > 0
    /\ 2 \in alone
    /\ last.ctx = "map"
    /\ last.this = [k |-> "instance", id |-> mods[2].instance]
    /\ mods[2].instance /= mods[1].instance

\* C16: after Close or CloseWithExitCode on the module returned by
\* Instantiate[T], the registry of its InstantiationContext has no entry for
\* T, the host instance's own Close has been invoked, the runtime module has
\* been closed, and the entries of other module types are unchanged.
C16_CloseRemovesEntry ==
    (pc = "registry" /\ last.op \in {"Close", "CloseWithExitCode"}) =>
        LET m == last.module
            T == mods[m].type
            h == mods[m].instance
        IN /\ registry[T] = 0
           /\ hosts[h].closes = last.before.hosts[h].closes + 1
           /\ mods[m].closed = last.before.mods[m].closed + 1
           /\ \A U \in ModuleTypes \ {T} : registry[U] = last.before.registry[U]

\* C16, amended: the same for the first Close or CloseWithExitCode on the
\* module; a repeated one closes the host instance and the runtime module
\* again and leaves the whole registry as it is.
C16_FirstCloseRemovesEntry ==
    (pc = "registry" /\ last.op \in {"Close", "CloseWithExitCode"}) =>
        LET m == last.module
            T == mods[m].type
            h == mods[m].instance
        IN /\ IF last.before.mods[m].closed = 0
              THEN registry[T] = 0
              ELSE registry = last.before.registry
           /\ hosts[h].closes = last.before.hosts[h].closes + 1
           /\ mods[m].closed = last.before.mods[m].closed + 1
           /\ \A U \in ModuleTypes \ {T} : registry[U] = last.before.registry[U]

\* A module was closed for the first time with CloseWithExitCode while both
\* types had an entry; the other type's entry is still there.
C16_Witness ==
    /\ pc = "registry"
    /\ last.op = "CloseWithExitCode"
    /\ last.before.mods[last.module].closed = 0
    /\ \A T \in ModuleTypes : last.before.registry[T] /= 0
    /\ \E T \in ModuleTypes : registry[T] /= 0

\* C17: after InstantiationContext.Close every instance registered in it has
\* had its Close invoked, and every later Instantiate on that context returns
\* ErrNoRuntime without creating a host instance, registering an entry or
\* panicking; likewise Compile on a closed CompilationContext returns
\* ErrNoRuntime.
C17_ClosedContextUnusable ==
    pc = "registry" =>
        /\ (last.op = "InstantiationContext.Close" /\ last.open) =>
              \A T \in ModuleTypes :
                  last.before.registry[T] /= 0 =>
                      hosts[last.before.registry[T]].closes
                          = last.before.hosts[last.before.registry[T]].closes + 1
        /\ (last.op = "Instantiate" /\ last.closed) =>
              /\ last.result = "ErrNoRuntime"
              /\ Now = last.before
        /\ (last.op = "Compile" /\ last.closed) => last.result = "ErrNoRuntime"

\* C25: Close removes only its own entry. Closing a module handle removes the
\* registry entry of its module type only if that entry is the instance the
\* handle owns; if a later Instantiate of the same type on the same
\* InstantiationContext replaced the entry, closing the earlier handle leaves
\* the later instance registered and resolvable by calls.
C25_CloseOnlyOwnEntry ==
    (pc = "registry" /\ last.op \in {"Close", "CloseWithExitCode"}) =>
        LET m == last.module
            T == mods[m].type
            h == mods[m].instance
        IN  IF last.before.registry[T] = h
            THEN registry[T] = 0
            ELSE /\ registry[T] = last.before.registry[T]
                 /\ last.before.registry[T] /= 0 =>
                       Registry_this(registry, "map", T)
                           = [k |-> "instance", id |-> last.before.registry[T]]

\* C26: Close at most once. Across every sequence of moduleInstance.Close,
\* moduleInstance.CloseWithExitCode and InstantiationContext.Close, the Close
\* method of each host instance is invoked at most once.
C26_CloseAtMostOnce ==
    pc = "registry" => \A h \in DOMAIN hosts : hosts[h].closes <= 1

\* C27: no dispatch to closed instances. Once InstantiationContext.Close has
\* returned, a call context obtained earlier from NewCallContext on that
\* context resolves no receiver: an exported call under it does not run
\* against an instance.
C27_NoDispatchAfterClose ==
    (pc = "registry" /\ last.op = "Call" /\ ~ictx.runtime) => last.this.k = "panic"

\* C28: a failed instantiation leaves the registry unchanged. When
\* Instantiate[T] returns the error of the runtime's InstantiateModule, the
\* registry of the InstantiationContext is what it was before the call; and
\* when CompiledModule.Instantiate fails in the host module's Instantiate, the
\* runtime module it had created is closed and no instance is returned.
C28_FailedInstantiate ==
    /\ (pc = "registry" /\ last.op = "Instantiate" /\ last.result = "error") =>
          registry = last.before.registry
    /\ pc = "instances" =>
          \A p \in Procs :
              proc[p].pc = "failed" =>
                  /\ proc[p].ins = NilValue
                  /\ proc[p].module /= 0 => rt[proc[p].module].closed

\* The second half of C28 alone: CompiledModule.Instantiate.
C28_FailedHostInstantiate ==
    pc = "instances" =>
        \A p \in Procs :
            proc[p].pc = "failed" =>
                /\ proc[p].ins = NilValue
                /\ proc[p].module /= 0 => rt[proc[p].module].closed

\* C30: WithCallContext copies the registry. The context it returns resolves
\* every module type registered in the parent context to the same instance as
\* the parent does, except module type T, which resolves to the newly created
\* instance; the registry of the parent is not modified, so calls under the
\* parent context resolve as before.
C30_WithCallContextCopies ==
    pc = "registry" =>
        /\ last.op = "WithCallContext" =>
              /\ \A U \in ModuleTypes \ {last.type} :
                    Registry_this(last.made.modules, "map", U)
                        = Registry_this(last.prev, "map", U)
              /\ Len(hosts) = Len(last.before.hosts) + 1
              /\ hosts[Len(hosts)] = [type |-> last.type, closes |-> 0]
              /\ Registry_this(last.made.modules, "map", last.type)
                    = [k |-> "instance", id |-> Len(hosts)]
              /\ registry = last.before.registry
              /\ mods = last.before.mods
              /\ \A h \in DOMAIN last.before.hosts : hosts[h] = last.before.hosts[h]
              /\ \A ref \in ctxs, U \in ModuleTypes :
                    Registry_this(registry, ref, U)
                        = Registry_this(last.before.registry, ref, U)
              /\ last.made \in wctxs
              /\ last.parent.k = "derived" => last.parent \in wctxs
        /\ last.op = "CallUnder" =>
              /\ Now = last.before
              /\ last.type = last.ctx.type =>
                    last.this = [k |-> "instance", id |-> last.ctx.instance]

\* WithCallContext was called on a call context of an InstantiationContext
\* that has an instance of the other module type registered: the new context
\* resolves that type to the same instance and its own type to the new one.
C30_Witness ==
    /\ pc = "registry"
    /\ last.op = "WithCallContext"
    /\ last.parent = CallContext("map")
    /\ \E U \in ModuleTypes \ {last.type} :
          /\ last.prev[U] /= 0
          /\ last.made.modules[U] = last.prev[U]
          /\ registry[U] = last.prev[U]
    /\ last.made.modules[last.type] = Len(hosts)
    /\ registry[last.type] = 0

-----------------------------------------------------------------------------
(* The layout cache. *)

\* C18: under every interleaving of concurrent cachedObjectTypeOf calls, for
\* the same or different record types, each call returns a descriptor whose
\* byte size and field list equal those of a fresh objectTypeOf(t), and a
\* cache map is never modified after it has been published with Store.
C18_CacheDeterminism ==
    pc = "cache" =>
        /\ \A g \in Goroutines :
              gor[g].pc = "returned" =>
                  /\ gor[g].ret = objectTypeOf(gor[g].t)
                  /\ objectSize(gor[g].ret) = objectSize(objectTypeOf(gor[g].t))
        /\ \A i \in DOMAIN maps : frozen[i].pub => maps[i] = frozen[i].content

\* Two goroutines missed at the same time and each published a map of one
\* entry, so one entry was lost; a later call was served from the cache.
C18_Witness ==
    /\ pc = "cache"
    /\ Len(maps) = 2
    /\ \A i \in DOMAIN maps : frozen[i].pub /\ Cardinality(maps[i]) = 1
    /\ maps[1] /= maps[2]
    /\ \E g \in Goroutines : gor[g].pc = "returned" /\ gor[g].hit

\* The types a cache map has a descriptor for.
Keys(cache) == { e.key : e \in cache }

\* C29: the layout cache keeps every entry. Under every interleaving of
\* concurrent cachedObjectTypeOf calls for distinct record types, a type that
\* has been stored in the cache is in the map the cache holds from then on;
\* once all calls have returned the cache holds a descriptor for every type
\* that was derived.
C29_CacheKeepsEntries ==
    (pc = "cache" /\ objectTypes /= 0) =>
        \A i \in DOMAIN maps :
            frozen[i].pub => Keys(frozen[i].content) \subseteq Keys(maps[objectTypes])

-----------------------------------------------------------------------------
(* Record layouts. *)

\* The names and the sizes of the fields of a record descriptor, in order.
FieldNames(ot) == [i \in 1..Len(ot.fields) |-> ot.fields[i].name]
FieldSizes(ot) == [i \in 1..Len(ot.fields) |-> ot.fields[i].size]

\* C19: a record type that embeds an anonymous sub-record derives the same
\* layout (same ordered field names, same field sizes, same total ObjectSize)
\* as the record type that declares the sub-record's fields inline at that
\* position; no field of the embedded sub-record appears more than once.
C19_EmbeddedFlattening ==
    pc = "layout" =>
        /\ FieldNames(ret.embedding) = FieldNames(ret.inline)
        /\ FieldSizes(ret.embedding) = FieldSizes(ret.inline)
        /\ objectSize(ret.embedding) = objectSize(ret.inline)
        /\ \A i, j \in 1..Len(ret.embedding.fields) :
              ret.embedding.fields[i].name = ret.embedding.fields[j].name => i = j

\* The byte size the declaration of a type gives it when nothing is padded:
\* a primitive its width, an array its length times its element, a record
\* the sum over the first n of its fields.
RECURSIVE DeclaredSize(_), DeclaredFieldsSize(_, _)
DeclaredSize(t) ==
    CASE t.k = "prim" -> KindSize(t.kind)
      [] t.k = "array" -> t.len * DeclaredSize(t.elem)
      [] t.k = "struct" -> DeclaredFieldsSize(t.fields, Len(t.fields))

DeclaredFieldsSize(fields, n) ==
    IF n = 0 THEN 0
    ELSE DeclaredFieldsSize(fields, n - 1) + DeclaredSize(fields[n].Type)

\* The bytes of field k in the window, at the sum of the sizes before it.
FieldWindow(t, k, obj) ==
    SubSeq(obj, DeclaredFieldsSize(t.fields, k - 1) + 1,
           DeclaredFieldsSize(t.fields, k))

\* Unpadded layout of a stored or loaded record.
UnpaddedLayout ==
    LET t == typ[2] IN
    /\ ObjectSize(typ) = DeclaredSize(t)
    /\ Len(object) = DeclaredSize(t)
    /\ \A k \in 1..Len(t.fields) :
          /\ FieldWindow(t, k, object)
                = Packed(t.fields[k].Type, FieldOffset(t.fields, k), arg)
          /\ pc = "objLoaded" =>
                FieldWindow(t, k, object)
                    = Packed(t.fields[k].Type, FieldOffset(t.fields, k), ret)

\* C20: for every record type made of primitive fields, fixed-size arrays and
\* named nested records, ObjectSize equals the sum of its fields' byte sizes
\* with no padding (an array of N elements of size S contributes N * S, a
\* zero-field record has size 0), and load/store place field k at the byte
\* offset equal to the sum of the sizes of the fields before it.
C20_UnpaddedLayout ==
    /\ pc /= "panic"
    /\ (pc \in {"objStored", "objLoaded"} /\ IsStruct(typ)) => UnpaddedLayout

\* C20, amended: the same for the record types whose scalars, at any depth,
\* are integers of 8 to 64 bits or floats; a record type holding a scalar of
\* another kind (bool, uintptr) has no layout, its object operations panic.
C20_UnpaddedLayoutNumeric ==
    /\ pc = "panic" => (IsStruct(typ) /\ HoldsOtherKind(typ[2]))
    /\ (pc \in {"objStored", "objLoaded"} /\ IsStruct(typ)) =>
          /\ ~HoldsOtherKind(typ[2])
          /\ UnpaddedLayout

\* A record of a byte and an array of two 3-byte records, 10 bytes in Go's
\* layout, was stored into 7 bytes and loaded back.
C20_Witness ==
    /\ pc = "objLoaded"
    /\ typ = <<"Struct", Pairs>>
    /\ GoSize(Pairs) = 10
    /\ Len(object) = 7
    /\ arg = Image(Pairs, 0, Zeros(GoSize(Pairs)), "ramp")
    /\ FieldWindow(Pairs, 2, object) /= Zeros(6)

-----------------------------------------------------------------------------
(* Claims about the shapes of the scalars. *)

\* The primitive scalars: every scalar but the error code.
Primitive(T) == ~IsOptional(T) /\ ~IsStruct(T) /\ T[1] /= "Errno"

\* The one-word stack shape of a scalar by its kind and width.
OneWord(name) ==
    CASE name \in {"Bool", "Int8", "Int16", "Int32", "Uint8", "Uint16", "Uint32"}
            -> <<"i32">>
      [] name \in {"Int64", "Uint64", "Duration"} -> <<"i64">>
      [] name = "Float32" -> <<"f32">>
      [] name = "Float64" -> <<"f64">>
      [] OTHER -> <<"i32">>

\* The type in use has the shape of one word of its kind and an object size of
\* 1, 2, 4 or 8 bytes; a store of a value wrote that one word.
OneWordShape ==
    /\ ValueTypes(typ) = OneWord(typ[1])
    /\ ScalarObjectSize(typ[1]) \in {1, 2, 4, 8}
    /\ pc = "stored" => \A i \in 2..Len(stack) : stack[i] = before[i]
    /\ pc = "objStored" => Len(object) = ScalarObjectSize(typ[1])

\* C21: scalar stack shape. Every primitive scalar (the integers of 8 to 64
\* bits, the floats, Bool, Duration and the unit value None) has, whatever the
\* value, a stack shape of exactly one word (i32 for Bool and the integers up
\* to 32 bits, i64 for the 64-bit integers and Duration, f32 and f64 for the
\* floats) and an object size of 1, 2, 4 or 8 bytes.
C21_ScalarShape ==
    (pc \in {"stored", "objStored"} /\ Primitive(typ)) => OneWordShape

\* C21 as the code has it: the same for every primitive scalar but None, whose
\* stack shape is empty (no word at all) and whose object size is 0.
C21_ScalarShapeButNone ==
    (pc \in {"stored", "objStored"} /\ Primitive(typ)) =>
        IF typ[1] = "None"
        THEN /\ ValueTypes(typ) = <<>>
             /\ ScalarObjectSize("None") = 0
             /\ pc = "stored" => stack = before
             /\ pc = "objStored" => object = <<>>
        ELSE OneWordShape

\* Duration(-1) was stored in one i64 word, the second word left alone.
C21_Witness ==
    /\ pc = "stored"
    /\ typ = <<"Duration">>
    /\ arg = <<255, 255, 255, 255, 255, 255, 255, 255>>
    /\ Len(stack) = 2
    /\ stack[1] = arg
    /\ ValueTypes(typ) = <<"i64">>

\* The integer types narrower than their 32-bit stack slot, with their width in
\* bytes and whether they are signed.
NarrowInts == {"Int8", "Int16", "Uint8", "Uint16"}
Width(name) == IF name \in {"Int8", "Uint8"} THEN 1 ELSE 2
Signed(name) == name \in {"Int8", "Int16"}

\* Byte i of the 64-bit word that holds the extension of v to 32 bits.
ExtendedByte(name, v, i) ==
    IF i <= Width(name) THEN v[i]
    ELSE IF i <= 4 /\ Signed(name) /\ v[Width(name)] >= 128 THEN 255
    ELSE 0

\* C22: no range checks on integer words. For Int8, Int16, Uint8 and Uint16,
\* LoadValue of any 64-bit stack word does not abort and returns the low 8 or
\* 16 bits of the word; StoreValue writes a word whose upper 32 bits are zero
\* and whose low 32 bits are the sign extension (signed types) or the zero
\* extension (unsigned types) of the value.
C22_NoRangeChecks ==
    /\ (pc = "decoded" /\ typ[1] \in NarrowInts) =>
          /\ ret \in Seq(Byte)
          /\ Len(ret) = Width(typ[1])
          /\ \A i \in 1..Width(typ[1]) : ret[i] = stack[1][i]
    /\ (pc = "stored" /\ typ[1] \in NarrowInts) =>
          /\ Len(stack[1]) = 8
          /\ \A i \in 1..8 : stack[1][i] = ExtendedByte(typ[1], arg, i)

\* A guest left a word with bits set above the low 8 and Int8 was decoded from
\* it, giving a negative value out of the low byte.
C22_Witness ==
    /\ pc = "decoded"
    /\ typ = <<"Int8">>
    /\ \E i \in 2..8 : stack[1][i] /= 0
    /\ \E i \in 5..8 : stack[1][i] /= 0
    /\ ret[1] >= 128
    /\ \E i \in 2..4 : stack[1][i] /= 255

-----------------------------------------------------------------------------
(* Claims about the Log decorator. *)

\* The value of the scalar inside a type: Optional[T] of a successful result
\* unwrapped down to its element.
RECURSIVE Inner_value(_, _)
Inner_value(T, v) == IF IsOptional(T) THEN Inner_value(Elem(T), v.res) ELSE v

\* C23: Log decorator snapshot. A call of a function wrapped by Log with a
\* non-nil logger prints exactly one line; the parameters in it are rendered
\* from the stack words as they were when the call was entered (they show the
\* arguments the caller encoded), not from the words the result overwrote; when
\* the thunk returned the call returns, and the results are rendered from the
\* stack words the thunk left; and when the thunk panicked the line ends with
\* PANIC!, has no results, and the panic reaches the caller.
C23_LogSnapshot ==
    (pc \in {"logged", "logPanic"} /\ arg = "logger") =>
        /\ Len(lines) = 1
        /\ lines[1].params
              = formatValues(memory, Slice(before, 0, NumParams(fn)), fn.Params).text
        /\ \A i \in DOMAIN args :
              lines[1].params[i].value = Inner_value(fn.Params[i], args[i])
        /\ calls /= <<>> =>
              /\ pc = "logged"
              /\ Len(calls) = 1
              /\ Len(lines[1].params) = Len(fn.Params)
              /\ lines[1].closed
              /\ ~lines[1].panicked
              /\ lines[1].results = formatValues(memory, stack, fn.Results).text
              /\ NoError(typ, calls[1].result) =>
                    lines[1].results[1].value = Inner_value(typ, calls[1].result)
        /\ calls = <<>> =>
              /\ pc = "logPanic"
              /\ Len(lines[1].params) = Len(fn.Params)
              /\ lines[1].closed
              /\ lines[1].panicked
              /\ lines[1].results = <<>>
              /\ stack = before

====
